---- MODULE Spec2Model ----
(***************************************************************************)
(* Ticket inventory and reservation lifecycle of ticketbot.database:       *)
(* the events / reservations / attendees tables and the Database methods   *)
(* that write them.  Every method runs to completion before the next one   *)
(* starts (sequential callers); a method's statements between two commits  *)
(* are one step.  Spec lets every caller book; SpecValidated keeps to the   *)
(* callers that refuse negative head counts before they book.              *)
(*                                                                         *)
(* Prices are REAL columns holding whole amounts; they are modelled as     *)
(* integers that are multiples of 12 so that total_price / quantity is     *)
(* exact for the quantities the model reaches.                             *)
(***************************************************************************)
EXTENDS Integers, Sequences, FiniteSets, TLC

\* ---------------------------------------------------------------- bounds
MaxEvents == 1
MaxReservations == 2
MaxAttendees == 3
MaxParty == 2
MaxEdits == 1

\* ------------------------------------------------------ program constants
STATUS_PENDING == "pending_payment_review"
STATUS_APPROVED == "approved"
STATUS_REJECTED == "rejected"
STATUS_CANCELLED == "cancelled"
LEGACY_PENDING_STATUSES == {"pending"}

TierOrder == <<"early", "tier1", "tier2">>
TierKeys == {"early", "tier1", "tier2"}
NoTier == "none"
NoRes == 0
NULL == "NULL"

\* ------------------------------------------------------------ input sets
UserIds == {1}
AdminTgIds == {902}
BookingInputs == {<<1, 0>>, <<1, 1>>, <<0 - 1, 2>>, <<0, 0>>, <<2, 2>>}
\* (boys, girls) of the quotes: the endpoint's request model admits no negative
\* count; QuoteProbes are the quotes asked amid the writing calls
MaxQuote == 3
MaxQuoteQty == 2
QuoteInputs == {<<b, g>> : b \in 0..MaxQuote, g \in 0..MaxQuote}
QuoteProbes == {<<1, 0>>}
QuoteQtyProfiles == {[early |-> a, tier1 |-> b, tier2 |-> c] : a \in 0..MaxQuoteQty, b \in 0..MaxQuoteQty, c \in 0..MaxQuoteQty}
Roster == <<"Ann Lee", "Bob Ray", "Ann Lee", "Bob Ray">>
GenderInputs == {"boy", "girl", "F", "other"}
NoteInputs == {"Wrong amount"}
QtyProfiles ==
    { [early |-> 1, tier1 |-> 1, tier2 |-> 0] }
BoyPrices == [early |-> 12, tier1 |-> 36, tier2 |-> 60]
GirlPrices == [early |-> 24, tier1 |-> 48, tier2 |-> 72]
GuestNameInputs == {"Ann Lee"}
SellerTgIds == {901}
WalkInInputs == {<<"Bob", "Ray", FALSE>>, <<"Bob", "", FALSE>>, <<"", "Ray", TRUE>>}
ImportInputs == {<<"Ann", "Lee">>, <<"", "Lee">>}
RemoveNameInputs == {<<"Ann", "Lee">>, <<" ANN", "LEE ">>, <<"Bob", "Ray">>, <<"Ann", "">>}
RenameInputs == {" Bob  Ray", "  "}
\* sheets of the import endpoint: rows of (column A, column B), "" an empty cell
SheetInputs ==
    { << <<"Ann", "Lee">> >>,
      << <<"name", "surname">>, <<"Ann", "Lee">>, <<"Bob", "">> >>,
      << <<"Bob Ray", "">> >>,
      << <<"", "">>, <<"", "Ray">> >> }
PriceFieldInputs == {"early_boy", "vip_boy"}
PriceInputs == {96}
UpdateInputs ==
    { <<>>,
      << <<"early_qty", 2>> >>,
      << <<"tier1_qty", 0 - 1>> >>,
      << <<"early_boy", 96>> >>,
      << <<"early_qty", 2>>, <<"tier2_girl", 0 - 12>> >>,
      << <<"capacity", 5>> >> }

Max(a, b) == IF a >= b THEN a ELSE b
Rep(x, n) == [i \in 1..Max(n, 0) |-> x]

VARIABLES
    events,             \* events table: id -> [qty, boy_price, girl_price]
    reservations,       \* reservations table: id -> row
    attendees,          \* attendees table: id -> row
    nextEventId,        \* AUTOINCREMENT sequences
    nextReservationId,
    nextAttendeeId,
    edits,              \* how many event edits have been made (bounds the model)
    ret,                \* what the last call returned: [ok, res]
    quote,              \* what the last call returned when it was quote_booking
    createdQty,         \* history: the quantities each event was created with
    qtyEdited,          \* history: events whose quantities set_event_fields wrote
    released,           \* history: reservations whose hold has been credited back
    snap,               \* history: the quantities before the latest creation
    added,              \* history: the reservation and quantities before the latest add
    paidPrice,          \* history: the unit price each attendee was allocated at
    journal,            \* the connection's open transaction: what a rollback restores
    callers,            \* the calls in progress when two threads share the connection
    columns,            \* the schema: the columns each table of the file has
    migrations          \* history: migration passes run in a row, no call after them

vars == <<events, reservations, attendees, nextEventId, nextReservationId,
          nextAttendeeId, edits, ret, quote, createdQty, qtyEdited, released, snap, added,
          paidPrice, journal, callers, columns, migrations>>

tables == <<events, reservations, attendees, nextEventId, nextReservationId,
            nextAttendeeId, edits>>
history == <<createdQty, qtyEdited, released, snap, added, paidPrice>>

\* the columns of the three tables once _init_schema and _migrate_schema have run
LatestColumns ==
    [events |-> {"id", "title", "event_datetime", "location", "caption", "photo_file_id",
                 "early_bird_price", "early_bird_price_girl", "early_bird_qty",
                 "regular_tier1_price", "regular_tier1_price_girl", "regular_tier1_qty",
                 "regular_tier2_price", "regular_tier2_price_girl", "regular_tier2_qty",
                 "status"},
     reservations |-> {"id", "code", "user_id", "event_id", "ticket_type", "quantity",
                       "total_price", "boys", "girls", "status", "created_at",
                       "payment_file_id", "payment_file_type", "admin_note",
                       "reviewed_at", "reviewed_by_tg_id", "hold_applied"},
     attendees |-> {"id", "reservation_id", "name", "surname", "full_name", "gender",
                    "ticket_tier", "status"}]

\* the two threads that may be inside a method of the one Database object
Callers == {"A", "B"}

\* no transaction is open on the connection
NoJournal ==
    [open |-> FALSE, events |-> <<>>, reservations |-> <<>>, attendees |-> <<>>,
     nextReservationId |-> 0, nextAttendeeId |-> 0]

NoRow == [id |-> NoRes]

\* a thread that is not inside any method
Idle ==
    [pc |-> "idle", op |-> "", user_id |-> 0, event_id |-> 0, boys |-> 0, girls |-> 0,
     row |-> NoRow, attendee_id |-> 0, reservation_id |-> NoRes, plan |-> [ok |-> FALSE],
     allocs |-> <<>>, todo |-> <<>>, rowcount0 |-> FALSE, result |-> "none"]

\* a method called by one thread at a time runs from its first statement to its
\* commit with no other statement between: no transaction is open before or
\* after it and no other call is in progress
Sequential == UNCHANGED <<journal, callers, columns>> /\ migrations' = 0

NoSnap ==
    [stage |-> "none", by |-> "", res |-> NoRes, event |-> 0, guests |-> FALSE,
     qty |-> [t \in TierKeys |-> 0]]

NoAdded ==
    [stage |-> "none", res |-> NoRes, att |-> 0, quantity |-> 0, boys |-> 0,
     girls |-> 0, total_price |-> 0, qty |-> [t \in TierKeys |-> 0]]

Returned(ok, res) == [ok |-> ok, res |-> res]

\* the last call was not quote_booking
NoQuote ==
    [stage |-> "none", event_id |-> 0, boys |-> 0, girls |-> 0, error |-> "",
     quantity |-> 0, total_price |-> 0, breakdown |-> <<>>,
     attendee_allocations |-> <<>>]

\* ------------------------------------------------------------ tier model
total_remaining(event) ==
    event.qty["early"] + event.qty["tier1"] + event.qty["tier2"]

_tier_prices(event, tier_key) ==
    <<event.boy_price[tier_key], event.girl_price[tier_key]>>

\* fault: the scan takes the last tier with stock instead of the first
SelectTier_last_first(rem) ==
    IF \E i \in 1..3 : rem[TierOrder[i]] > 0
    THEN TierOrder[CHOOSE i \in 1..3 :
                       /\ rem[TierOrder[i]] > 0
                       /\ \A j \in (i + 1)..3 : ~(rem[TierOrder[j]] > 0)]
    ELSE NoTier

\* first tier, in the fixed order, that has something left in rem
SelectTier(rem) ==
    IF \E i \in 1..3 : rem[TierOrder[i]] > 0
    THEN TierOrder[CHOOSE i \in 1..3 :
                       /\ rem[TierOrder[i]] > 0
                       /\ \A j \in 1..(i - 1) : ~(rem[TierOrder[j]] > 0)]
    ELSE NoTier

\* fault: the last tier with stock is taken as the active one
active_tier_last(event) == SelectTier_last_first(event.qty)

\* fault: the first tier of the order is active as long as anything is left
active_tier_first_of_order(event) ==
    IF total_remaining(event) > 0 THEN "early" ELSE NoTier

active_tier(event) == SelectTier(event.qty)

\* ------------------------------------------------------ allocation engine
RECURSIVE ScanGenders(_, _, _, _)
ScanGenders(event, genders, tier_remaining, allocations) ==
    IF genders = <<>>
    THEN [ok |-> TRUE, allocations |-> allocations]
    ELSE LET selected_tier == SelectTier(tier_remaining)
             gender == Head(genders)
             prices == _tier_prices(event, selected_tier)
         IN IF selected_tier = NoTier
            THEN [ok |-> FALSE, allocations |-> allocations]
            ELSE ScanGenders(event, Tail(genders),
                     [tier_remaining EXCEPT ![selected_tier] = @ - 1],
                     Append(allocations,
                            [tier_key |-> selected_tier,
                             gender |-> gender,
                             unit_price |-> IF gender = "boy" THEN prices[1]
                                                              ELSE prices[2]]))

RECURSIVE SumPrices(_)
SumPrices(allocations) ==
    IF allocations = <<>> THEN 0
    ELSE Head(allocations).unit_price + SumPrices(Tail(allocations))

CountTier(allocations, tier_key) ==
    Cardinality({i \in DOMAIN allocations : allocations[i].tier_key = tier_key})

TierNames == [early |-> "Early Bird", tier1 |-> "Regular Tier-1", tier2 |-> "Regular Tier-2"]

\* the entries of allocations that fell into tier_key
InTier(allocations, tier_key) ==
    SelectSeq(allocations, LAMBDA entry : entry.tier_key = tier_key)

\* tier_usage[tier_key] once the scan is over
TierUsage(event, allocations, tier_key) ==
    LET mine == InTier(allocations, tier_key)
    IN [tier_key |-> tier_key,
        tier_name |-> TierNames[tier_key],
        count |-> Len(mine),
        boys |-> Len(SelectSeq(mine, LAMBDA entry : entry.gender = "boy")),
        girls |-> Len(SelectSeq(mine, LAMBDA entry : entry.gender = "girl")),
        boy_price |-> _tier_prices(event, tier_key)[1],
        girl_price |-> _tier_prices(event, tier_key)[2],
        subtotal |-> SumPrices(mine)]

\* the usage of the tiers that were used, in tier order
Breakdown(event, allocations) ==
    SelectSeq([i \in 1..3 |-> TierUsage(event, allocations, TierOrder[i])],
              LAMBDA usage : usage.count > 0)

\* fault: the girls of a request are planned before its boys
PlanGenders_girls_first(boys, girls) == Rep("girl", girls) \o Rep("boy", boys)

\* the boys of a request come first in the list the scan walks
PlanGenders(boys, girls) == Rep("boy", boys) \o Rep("girl", girls)

\* fault: the pre-check lets a request of one more than the total through
OverRequest_off_by_one(event, quantity) == quantity > total_remaining(event) + 1

\* the pre-check of the plan against the sum of the three tiers
OverRequest(event, quantity) == quantity > total_remaining(event)

_allocate_tier_plan(event, boys, girls) ==
    LET quantity == boys + girls
        genders == PlanGenders(boys, girls)
        scan == ScanGenders(event, genders, event.qty, <<>>)
    IN IF quantity <= 0
       THEN [ok |-> FALSE, error |-> "At least one attendee is required"]
       ELSE IF OverRequest(event, quantity)
       THEN [ok |-> FALSE, error |-> "Not enough tickets remaining across all tiers"]
       ELSE IF ~scan.ok
       THEN [ok |-> FALSE, error |-> "Event is sold out"]
       ELSE [ok |-> TRUE,
             quantity |-> quantity,
             total_price |-> SumPrices(scan.allocations),
             primary_tier_key |-> IF scan.allocations # <<>>
                                  THEN scan.allocations[1].tier_key
                                  ELSE "early",
             attendee_allocations |-> scan.allocations,
             hold_counts |-> [t \in TierKeys |-> CountTier(scan.allocations, t)],
             breakdown |-> Breakdown(event, scan.allocations)]

\* first token / remaining tokens of the names the model uses
_name_parts(full_name) ==
    CASE full_name = "Ann Lee" -> <<"Ann", "Lee">>
      [] full_name = "Bob Ray" -> <<"Bob", "Ray">>
      [] OTHER -> <<full_name, "">>

\* ----------------------------------------------------------------- Init
Init ==
    /\ events = <<>>
    /\ reservations = <<>>
    /\ attendees = <<>>
    /\ nextEventId = 1
    /\ nextReservationId = 1
    /\ nextAttendeeId = 1
    /\ edits = 0
    /\ quote = NoQuote
    /\ ret = Returned(TRUE, NoRes)
    /\ createdQty = <<>>
    /\ qtyEdited = {}
    /\ released = {}
    /\ snap = NoSnap
    /\ added = NoAdded
    /\ paidPrice = <<>>
    /\ journal = NoJournal
    /\ columns = LatestColumns
    /\ migrations = 0
    /\ callers = [t \in Callers |-> Idle]

\* ------------------------------------------------------- shared helpers
\* (value or "").strip().lower() on the status strings the store can hold
StripLower(status) ==
    CASE status = " Pending " -> "pending"
      [] status = "APPROVED" -> "approved"
      [] OTHER -> status

\* fault: the status is compared as stored, without strip and lower
_is_admin_mutable_reservation_status_as_stored(status) ==
    status \in
        ({STATUS_PENDING, STATUS_APPROVED, STATUS_REJECTED} \cup LEGACY_PENDING_STATUSES
         \cup {"pending_payment", "pending_review", "pending_payment_approval"})

_is_admin_mutable_reservation_status(status) ==
    StripLower(status) \in
        ({STATUS_PENDING, STATUS_APPROVED} \cup LEGACY_PENDING_STATUSES
         \cup {"pending_payment", "pending_review", "pending_payment_approval"})

_normalize_gender(value) ==
    CASE value \in {"boy", "male", "m", "M"} -> "boy"
      [] value \in {"girl", "female", "f", "F"} -> "girl"
      [] OTHER -> NULL

\* the users row of an admin (created on first use, then found again)
_ensure_user_for_tg(tg_id) == tg_id - 898

AttendeesOf(reservation_id) ==
    {a \in DOMAIN attendees : attendees[a].reservation_id = reservation_id}

\* SELECT ticket_tier, COUNT(*) ... GROUP BY ticket_tier, valid tiers only
_reservation_hold_counts(reservation_id) ==
    [t \in TierKeys |->
        Cardinality({a \in AttendeesOf(reservation_id) : attendees[a].ticket_tier = t})]

\* the tier quantities of the row's event after _release_hold(row)
ReleaseCounts(row) ==
    LET counts == _reservation_hold_counts(row.id)
    IN IF \E t \in TierKeys : counts[t] > 0
       THEN counts
       ELSE [t \in TierKeys |->
                IF row.ticket_type = t /\ row.quantity > 0 THEN row.quantity ELSE 0]

_release_hold(row) ==
    IF row.hold_applied # 1
    THEN events
    ELSE [events EXCEPT ![row.event_id].qty =
             [t \in TierKeys |-> @[t] + ReleaseCounts(row)[t]]]

_reservation_unit_price(row, event, gender, attendee_tier) ==
    LET tier_key == IF attendee_tier # "" THEN attendee_tier ELSE row.ticket_type
        prices == IF tier_key \in TierKeys THEN _tier_prices(event, tier_key)
                                           ELSE <<0, 0>>
    IN IF gender = "boy" THEN prices[1]
       ELSE IF gender = "girl" THEN prices[2]
       ELSE IF row.quantity > 0 THEN row.total_price \div row.quantity
       ELSE 0

Failed(res) ==
    /\ ret' = Returned(FALSE, res)
    /\ quote' = NoQuote
    /\ UNCHANGED <<tables, history>>

NewReservation(id, user_id, event_id, ticket_type, quantity, total_price, boys, girls, status, admin_note, reviewed_at, reviewed_by, hold_applied) ==
    [id |-> id, user_id |-> user_id, event_id |-> event_id,
     ticket_type |-> ticket_type, quantity |-> quantity,
     total_price |-> total_price, boys |-> boys, girls |-> girls,
     status |-> status, admin_note |-> admin_note, reviewed_at |-> reviewed_at,
     reviewed_by_tg_id |-> reviewed_by, hold_applied |-> hold_applied]

NewAttendee(reservation_id, name, surname, full_name, gender, ticket_tier) ==
    [reservation_id |-> reservation_id, name |-> name, surname |-> surname,
     full_name |-> full_name, gender |-> gender, ticket_tier |-> ticket_tier]

\* ------------------------------------------------------------ operations
QuoteFailed(event_id, boys, girls, error) ==
    [NoQuote EXCEPT !.stage = "failed", !.event_id = event_id, !.boys = boys,
                    !.girls = girls, !.error = error]

Quoted(event_id, boys, girls, plan) ==
    [stage |-> "quoted", event_id |-> event_id, boys |-> boys, girls |-> girls,
     error |-> "", quantity |-> plan.quantity, total_price |-> plan.total_price,
     breakdown |-> plan.breakdown,
     attendee_allocations |-> plan.attendee_allocations]

\* fault: the quote writes the planning copy of the counters back to the event
quote_booking_committing(event_id, boys, girls) ==
    IF event_id \notin DOMAIN events
    THEN /\ ret' = Returned(FALSE, NoRes)
         /\ quote' = QuoteFailed(event_id, boys, girls, "Event not found")
         /\ UNCHANGED <<tables, history>>
    ELSE LET plan == _allocate_tier_plan(events[event_id], boys, girls)
         IN IF ~plan.ok
            THEN /\ ret' = Returned(FALSE, NoRes)
                 /\ quote' = QuoteFailed(event_id, boys, girls, plan.error)
                 /\ UNCHANGED <<tables, history>>
            ELSE /\ ret' = Returned(TRUE, NoRes)
                 /\ quote' = Quoted(event_id, boys, girls, plan)
                 /\ events' = [events EXCEPT ![event_id].qty =
                                  [t \in TierKeys |-> @[t] - plan.hold_counts[t]]]
                 /\ UNCHANGED <<reservations, attendees, nextEventId,
                                nextReservationId, nextAttendeeId, edits, history>>

quote_booking(event_id, boys, girls) ==
    IF event_id \notin DOMAIN events
    THEN /\ ret' = Returned(FALSE, NoRes)
         /\ quote' = QuoteFailed(event_id, boys, girls, "Event not found")
         /\ UNCHANGED <<tables, history>>
    ELSE LET plan == _allocate_tier_plan(events[event_id], boys, girls)
         IN IF ~plan.ok
            THEN /\ ret' = Returned(FALSE, NoRes)
                 /\ quote' = QuoteFailed(event_id, boys, girls, plan.error)
                 /\ UNCHANGED <<tables, history>>
            ELSE /\ ret' = Returned(TRUE, NoRes)
                 /\ quote' = Quoted(event_id, boys, girls, plan)
                 /\ UNCHANGED <<tables, history>>

create_event(qty) ==
    /\ nextEventId <= MaxEvents
    /\ events' = (nextEventId :> [qty |-> qty, boy_price |-> BoyPrices,
                                  girl_price |-> GirlPrices]) @@ events
    /\ nextEventId' = nextEventId + 1
    /\ createdQty' = (nextEventId :> qty) @@ createdQty
    /\ ret' = Returned(TRUE, NoRes)
    /\ quote' = NoQuote
    /\ snap' = NoSnap
    /\ added' = NoAdded
    /\ UNCHANGED <<reservations, attendees, nextReservationId, nextAttendeeId,
                   edits, qtyEdited, released, paidPrice>>

\* the guarded UPDATE ... SET qty = qty - ? WHERE qty >= ? of every used tier
HoldFits(event, hold_counts) ==
    \A t \in TierKeys : hold_counts[t] > 0 => event.qty[t] >= hold_counts[t]

create_pending_reservation(user_id, event_id, boys, girls, names) ==
    /\ nextReservationId <= MaxReservations
    /\ nextAttendeeId + Len(names) - 1 <= MaxAttendees
    /\ IF event_id \notin DOMAIN events
       THEN Failed(NoRes)
       ELSE LET event == events[event_id]
                plan == _allocate_tier_plan(event, boys, girls)
                id == nextReservationId
                first == nextAttendeeId
            IN IF ~plan.ok
               THEN Failed(NoRes)
               ELSE IF Len(names) # plan.quantity
               THEN Failed(NoRes)
               ELSE IF ~HoldFits(event, plan.hold_counts)
               THEN Failed(NoRes)
               ELSE
                 /\ reservations' = (id :> NewReservation(id, user_id, event_id,
                        plan.primary_tier_key, plan.quantity, plan.total_price,
                        boys, girls, STATUS_PENDING, "", NULL, NULL, 1))
                        @@ reservations
                 /\ attendees' =
                        [a \in first..(first + Len(names) - 1) |->
                            LET alloc == plan.attendee_allocations[a - first + 1]
                                full_name == names[a - first + 1]
                            IN NewAttendee(id, _name_parts(full_name)[1],
                                           _name_parts(full_name)[2], full_name,
                                           alloc.gender, alloc.tier_key)]
                        @@ attendees
                 /\ paidPrice' =
                        [a \in first..(first + Len(names) - 1) |->
                            plan.attendee_allocations[a - first + 1].unit_price]
                        @@ paidPrice
                 /\ events' = [events EXCEPT ![event_id].qty =
                        [t \in TierKeys |-> @[t] - plan.hold_counts[t]]]
                 /\ nextReservationId' = id + 1
                 /\ nextAttendeeId' = first + Len(names)
                 /\ snap' = [stage |-> "created", by |-> "booking", res |-> id,
                             event |-> event_id, guests |-> FALSE, qty |-> event.qty]
                 /\ added' = NoAdded
                 /\ ret' = Returned(TRUE, id)
                 /\ quote' = NoQuote
                 /\ UNCHANGED <<nextEventId, edits, createdQty, qtyEdited, released>>

\* snap follows a created reservation through its own approve, reject, cancel,
\* guest additions and guest removals; anything else on the event ends it
SnapAfterRelease(id) ==
    IF snap.stage = "created" /\ snap.res = id
    THEN [snap EXCEPT !.stage = "released"]
    ELSE NoSnap

SnapAfterGuest(id, cascade) ==
    IF snap.stage = "created" /\ snap.res = id
    THEN [snap EXCEPT !.guests = TRUE,
                      !.stage = IF cascade THEN "cascaded" ELSE "created"]
    ELSE NoSnap

\* fault: the status test also lets a rejected reservation through
approve_allowed_rejected_too(row) ==
    row.status \in {STATUS_PENDING, STATUS_REJECTED}

approve_allowed(row) == row.status = STATUS_PENDING

\* fault: approval also clears hold_applied
ApprovedRow_hold_cleared(row, admin_tg_id) ==
    [row EXCEPT !.status = STATUS_APPROVED, !.reviewed_at = "now",
                !.reviewed_by_tg_id = admin_tg_id, !.hold_applied = 0]

ApprovedRow(row, admin_tg_id) ==
    [row EXCEPT !.status = STATUS_APPROVED, !.reviewed_at = "now",
                !.reviewed_by_tg_id = admin_tg_id]

approve_reservation(reservation_id, admin_tg_id) ==
    IF reservation_id \notin DOMAIN reservations
    THEN Failed(NoRes)
    ELSE LET row == reservations[reservation_id]
         IN IF ~approve_allowed(row)
            THEN Failed(reservation_id)
            ELSE /\ reservations' =
                        [reservations EXCEPT ![reservation_id] = ApprovedRow(row, admin_tg_id)]
                 /\ snap' = IF snap.res = reservation_id THEN snap ELSE NoSnap
                 /\ added' = NoAdded
                 /\ ret' = Returned(TRUE, reservation_id)
                 /\ quote' = NoQuote
                 /\ UNCHANGED <<events, attendees, nextEventId, edits, nextReservationId,
                                nextAttendeeId, createdQty, qtyEdited, released,
                                paidPrice>>

\* fault: the status test also lets an approved reservation through
reject_allowed_approved_too(row) ==
    row.status \in {STATUS_PENDING, STATUS_APPROVED}

reject_allowed(row) == row.status = STATUS_PENDING

\* fault: the UPDATE of the rejected row is lost, the release is not
RejectedRow_update_lost(row, admin_tg_id, admin_note) == row

RejectedRow(row, admin_tg_id, admin_note) ==
    [row EXCEPT !.status = STATUS_REJECTED, !.admin_note = admin_note,
                !.reviewed_at = "now", !.reviewed_by_tg_id = admin_tg_id,
                !.hold_applied = 0]

reject_reservation(reservation_id, admin_tg_id, admin_note) ==
    IF reservation_id \notin DOMAIN reservations
    THEN Failed(NoRes)
    ELSE LET row == reservations[reservation_id]
         IN IF ~reject_allowed(row)
            THEN Failed(reservation_id)
            ELSE /\ events' = _release_hold(row)
                 /\ reservations' =
                        [reservations EXCEPT ![reservation_id] =
                            RejectedRow(row, admin_tg_id, admin_note)]
                 /\ released' = IF row.hold_applied = 1
                                THEN released \cup {reservation_id} ELSE released
                 /\ snap' = SnapAfterRelease(reservation_id)
                 /\ added' = NoAdded
                 /\ ret' = Returned(TRUE, reservation_id)
                 /\ quote' = NoQuote
                 /\ UNCHANGED <<attendees, nextEventId, edits, nextReservationId,
                                nextAttendeeId, createdQty, qtyEdited, paidPrice>>

\* fault: only a cancelled reservation counts as inactive
cancel_inactive_cancelled_only(row) == row.status = STATUS_CANCELLED

cancel_inactive(row) == row.status \in {STATUS_CANCELLED, STATUS_REJECTED}

\* fault: the cancel keeps hold_applied as it was
CancelledRow_hold_kept(row) == [row EXCEPT !.status = STATUS_CANCELLED]

CancelledRow(row) ==
    [row EXCEPT !.status = STATUS_CANCELLED, !.hold_applied = 0]

\* fault: the reservation is looked up by its code alone, whoever asks
cancel_reservation_for_user_any_user(user_id, reservation_code) ==
    IF reservation_code \notin DOMAIN reservations
    THEN Failed(NoRes)
    ELSE LET row == reservations[reservation_code]
         IN IF cancel_inactive(row)
            THEN Failed(row.id)
            ELSE /\ events' = _release_hold(row)
                 /\ reservations' =
                        [reservations EXCEPT ![row.id] = CancelledRow(row)]
                 /\ released' = IF row.hold_applied = 1
                                THEN released \cup {row.id} ELSE released
                 /\ snap' = SnapAfterRelease(row.id)
                 /\ added' = NoAdded
                 /\ ret' = Returned(TRUE, row.id)
                 /\ quote' = NoQuote
                 /\ UNCHANGED <<attendees, nextEventId, edits, nextReservationId,
                                nextAttendeeId, createdQty, qtyEdited, paidPrice>>

cancel_reservation_for_user(user_id, reservation_code) ==
    IF \/ reservation_code \notin DOMAIN reservations
       \/ reservations[reservation_code].user_id # user_id
    THEN Failed(NoRes)
    ELSE LET row == reservations[reservation_code]
         IN IF cancel_inactive(row)
            THEN Failed(row.id)
            ELSE /\ events' = _release_hold(row)
                 /\ reservations' =
                        [reservations EXCEPT ![row.id] = CancelledRow(row)]
                 /\ released' = IF row.hold_applied = 1
                                THEN released \cup {row.id} ELSE released
                 /\ snap' = SnapAfterRelease(row.id)
                 /\ added' = NoAdded
                 /\ ret' = Returned(TRUE, row.id)
                 /\ quote' = NoQuote
                 /\ UNCHANGED <<attendees, nextEventId, edits, nextReservationId,
                                nextAttendeeId, createdQty, qtyEdited, paidPrice>>

\* ------------------------------------------------------ guest mutation
\* fault: an add that leaves quantity as it was
GuestAddedRow_quantity_kept(row, gender, add_price) ==
    [row EXCEPT !.boys = row.boys + (IF gender = "boy" THEN 1 ELSE 0),
                !.girls = row.girls + (IF gender = "girl" THEN 1 ELSE 0),
                !.total_price = row.total_price + add_price]

\* fault: the price of the added guest never reaches total_price
GuestAddedRow_price_lost(row, gender, add_price) ==
    [row EXCEPT !.quantity = row.quantity + 1,
                !.boys = row.boys + (IF gender = "boy" THEN 1 ELSE 0),
                !.girls = row.girls + (IF gender = "girl" THEN 1 ELSE 0)]

\* the UPDATE reservations SET quantity, boys, girls, total_price of an add
GuestAddedRow(row, gender, add_price) ==
    [row EXCEPT !.quantity = row.quantity + 1,
                !.boys = row.boys + (IF gender = "boy" THEN 1 ELSE 0),
                !.girls = row.girls + (IF gender = "girl" THEN 1 ELSE 0),
                !.total_price = row.total_price + add_price]

admin_add_guest(reservation_code, full_name, gender_raw) ==
    LET gender == _normalize_gender(gender_raw)
    IN
    /\ nextAttendeeId <= MaxAttendees
    /\ IF gender = NULL
       THEN Failed(NoRes)
       ELSE IF reservation_code \notin DOMAIN reservations
       THEN Failed(NoRes)
       ELSE LET row == reservations[reservation_code] IN
            IF ~_is_admin_mutable_reservation_status(row.status)
            THEN Failed(NoRes)
            ELSE IF row.event_id \notin DOMAIN events
            THEN Failed(NoRes)
            ELSE LET event == events[row.event_id]
                     add_plan == _allocate_tier_plan(event,
                                     IF gender = "boy" THEN 1 ELSE 0,
                                     IF gender = "girl" THEN 1 ELSE 0)
                 IN IF ~add_plan.ok
                    THEN Failed(NoRes)
                    ELSE LET attendee_tier == add_plan.attendee_allocations[1].tier_key
                             add_price == add_plan.attendee_allocations[1].unit_price
                         IN IF row.hold_applied = 1 /\ ~(event.qty[attendee_tier] > 0)
                            THEN Failed(NoRes)
                            ELSE
                              /\ events' = IF row.hold_applied = 1
                                           THEN [events EXCEPT ![row.event_id].qty[attendee_tier] = @ - 1]
                                           ELSE events
                              /\ reservations' = [reservations EXCEPT ![row.id] =
                                     GuestAddedRow(row, gender, add_price)]
                              /\ attendees' = (nextAttendeeId :>
                                     NewAttendee(row.id, _name_parts(full_name)[1],
                                                 _name_parts(full_name)[2], full_name,
                                                 gender, attendee_tier)) @@ attendees
                              /\ paidPrice' = (nextAttendeeId :> add_price) @@ paidPrice
                              /\ nextAttendeeId' = nextAttendeeId + 1
                              /\ snap' = SnapAfterGuest(row.id, FALSE)
                              /\ added' = [stage |-> "added", res |-> row.id,
                                           att |-> nextAttendeeId,
                                           quantity |-> row.quantity, boys |-> row.boys,
                                           girls |-> row.girls,
                                           total_price |-> row.total_price,
                                           qty |-> event.qty]
                              /\ ret' = Returned(TRUE, row.id)
                              /\ quote' = NoQuote
                              /\ UNCHANGED <<nextEventId, edits, nextReservationId, createdQty,
                                             qtyEdited, released>>

admin_add_guest_by_event(admin_tg_id, event_id, name, surname, gender_raw, allow_missing_surname) ==
    LET gender == _normalize_gender(gender_raw)
        id == nextReservationId
    IN
    /\ nextReservationId <= MaxReservations
    /\ nextAttendeeId <= MaxAttendees
    /\ IF gender = NULL
       THEN Failed(NoRes)
       ELSE IF name = "" \/ (surname = "" /\ ~allow_missing_surname)
       THEN Failed(NoRes)
       ELSE IF event_id \notin DOMAIN events
       THEN Failed(NoRes)
       ELSE LET event == events[event_id]
                tier == active_tier(event)
            IN IF tier = NoTier
               THEN Failed(NoRes)
               ELSE LET prices == _tier_prices(event, tier)
                        price == IF gender = "boy" THEN prices[1] ELSE prices[2]
                        full_name == IF surname = "" THEN name
                                     ELSE name \o " " \o surname
                    IN IF ~(event.qty[tier] > 0)
                       THEN Failed(NoRes)
                       ELSE
                         /\ events' = [events EXCEPT ![event_id].qty[tier] = @ - 1]
                         /\ reservations' = (id :> NewReservation(id,
                                _ensure_user_for_tg(admin_tg_id), event_id, tier, 1,
                                price, IF gender = "boy" THEN 1 ELSE 0,
                                IF gender = "girl" THEN 1 ELSE 0, STATUS_APPROVED,
                                "Added by admin dashboard", "now", admin_tg_id, 1))
                                @@ reservations
                         /\ attendees' = (nextAttendeeId :>
                                NewAttendee(id, name, surname, full_name, gender, tier))
                                @@ attendees
                         /\ paidPrice' = (nextAttendeeId :> price) @@ paidPrice
                         /\ nextReservationId' = id + 1
                         /\ nextAttendeeId' = nextAttendeeId + 1
                         /\ snap' = [stage |-> "created", by |-> "walkin", res |-> id,
                                     event |-> event_id, guests |-> FALSE,
                                     qty |-> event.qty]
                         /\ added' = NoAdded
                         /\ ret' = Returned(TRUE, id)
                         /\ quote' = NoQuote
                         /\ UNCHANGED <<nextEventId, edits, createdQty, qtyEdited, released>>

admin_import_guest_by_event(admin_tg_id, event_id, name, surname) ==
    LET id == nextReservationId
        full_name == IF surname = "" THEN name ELSE name \o " " \o surname
    IN
    /\ nextReservationId <= MaxReservations
    /\ nextAttendeeId <= MaxAttendees
    /\ IF name = ""
       THEN Failed(NoRes)
       ELSE IF event_id \notin DOMAIN events
       THEN Failed(NoRes)
       ELSE
         /\ reservations' = (id :> NewReservation(id,
                _ensure_user_for_tg(admin_tg_id), event_id, "", 1, 0, 0, 0,
                STATUS_APPROVED, "Imported from Excel", "now", admin_tg_id, 0))
                @@ reservations
         /\ attendees' = (nextAttendeeId :>
                NewAttendee(id, name, surname, full_name, "unknown", ""))
                @@ attendees
         /\ paidPrice' = (nextAttendeeId :> 0) @@ paidPrice
         /\ nextReservationId' = id + 1
         /\ nextAttendeeId' = nextAttendeeId + 1
         /\ snap' = NoSnap
         /\ added' = NoAdded
         /\ ret' = Returned(TRUE, id)
         /\ quote' = NoQuote
         /\ UNCHANGED <<events, nextEventId, edits, createdQty, qtyEdited, released>>

Without(f, k) == [x \in DOMAIN f \ {k} |-> f[x]]

\* new_boys, new_girls of a removal
RemoveCounts(row, gender) ==
    IF gender = "boy" THEN <<Max(0, row.boys - 1), row.girls>>
    ELSE IF gender = "girl" THEN <<row.boys, Max(0, row.girls - 1)>>
    ELSE IF row.boys > 0 THEN <<row.boys - 1, row.girls>>
    ELSE <<row.boys, Max(0, row.girls - 1)>>

\* the UPDATE reservations SET quantity, boys, girls, total_price of a removal
GuestRemovedRow(row, gender, unit_price) ==
    [row EXCEPT !.quantity = row.quantity - 1,
                !.boys = RemoveCounts(row, gender)[1],
                !.girls = RemoveCounts(row, gender)[2],
                !.total_price = Max(0, row.total_price - unit_price)]

CascadeRow(row) ==
    [row EXCEPT !.quantity = 0, !.boys = 0, !.girls = 0, !.total_price = 0,
                !.status = STATUS_CANCELLED, !.hold_applied = 0]

ReleaseTier(row, attendee_tier) ==
    IF attendee_tier \in TierKeys THEN attendee_tier ELSE row.ticket_type

admin_remove_guest(attendee_id) ==
    IF attendee_id \notin DOMAIN attendees
    THEN Failed(NoRes)
    ELSE LET att == attendees[attendee_id]
             row == reservations[att.reservation_id]
         IN IF ~_is_admin_mutable_reservation_status(row.status)
            THEN Failed(NoRes)
            ELSE IF row.event_id \notin DOMAIN events
            THEN Failed(NoRes)
            ELSE LET event == events[row.event_id]
                     gender == IF att.gender \in {"boy", "girl"} THEN att.gender
                               ELSE "unknown"
                     unit_price == _reservation_unit_price(row, event, gender,
                                                           att.ticket_tier)
                     new_quantity == row.quantity - 1
                     release_tier == ReleaseTier(row, att.ticket_tier)
                 IN IF row.hold_applied = 1 /\ release_tier \notin TierKeys
                    THEN \* ValueError out of _tier_qty_column, after the DELETE
                         /\ attendees' = Without(attendees, attendee_id)
                         /\ paidPrice' = Without(paidPrice, attendee_id)
                         /\ ret' = Returned(FALSE, NoRes)
                         /\ quote' = NoQuote
                         /\ UNCHANGED <<events, reservations, nextEventId, edits,
                                        nextReservationId, nextAttendeeId, createdQty,
                                        qtyEdited, released, snap, added>>
                    ELSE
                      /\ attendees' = Without(attendees, attendee_id)
                      /\ paidPrice' = Without(paidPrice, attendee_id)
                      /\ events' = IF row.hold_applied = 1
                                   THEN [events EXCEPT ![row.event_id].qty[release_tier] = @ + 1]
                                   ELSE events
                      /\ reservations' = [reservations EXCEPT ![row.id] =
                             IF new_quantity <= 0
                             THEN CascadeRow(row)
                             ELSE GuestRemovedRow(row, gender, unit_price)]
                      /\ released' = IF new_quantity <= 0 /\ row.hold_applied = 1
                                     THEN released \cup {row.id} ELSE released
                      /\ snap' = SnapAfterGuest(row.id, new_quantity <= 0)
                      /\ added' = NoAdded
                      /\ ret' = Returned(TRUE, row.id)
                      /\ quote' = NoQuote
                      /\ UNCHANGED <<nextEventId, edits, nextReservationId, nextAttendeeId,
                                     createdQty, qtyEdited>>

\* LOWER(TRIM(x)) on the names the model uses
LowerTrim(x) ==
    CASE x \in {"Ann Lee", "ANN LEE", " ANN LEE"} -> "ann lee"
      [] x \in {"Ann", "ANN", " ANN"} -> "ann"
      [] x \in {"Lee", "LEE", "LEE "} -> "lee"
      [] x = "Bob Ray" -> "bob ray"
      [] x = "Bob" -> "bob"
      [] x = "Ray" -> "ray"
      [] OTHER -> x

Strip(x) ==
    CASE x = " ANN" -> "ANN"
      [] x = "LEE " -> "LEE"
      [] x = " Bob  Ray" -> "Bob  Ray"
      [] x = "  " -> ""
      [] OTHER -> x

\* clean.split(): the first token and the other tokens joined by one space
SplitName(clean) ==
    CASE clean \in {"Bob  Ray", "Bob Ray"} -> <<"Bob", "Ray">>
      [] clean = "Ann Lee" -> <<"Ann", "Lee">>
      [] OTHER -> <<clean, "">>

\* the UPDATE attendees SET full_name, name, surname of a rename
\* fault: the rewritten row loses its stored gender
RenamedRow_gender_lost(att, first_name, surname) ==
    [att EXCEPT !.full_name = first_name, !.name = first_name,
                !.surname = surname, !.gender = "unknown"]

RenamedRow(att, first_name, surname) ==
    [att EXCEPT !.full_name = IF surname = "" THEN first_name
                              ELSE first_name \o " " \o surname,
                !.name = first_name,
                !.surname = surname]

admin_rename_guest(attendee_id, full_name) ==
    LET clean == Strip(full_name)
        first_name == SplitName(clean)[1]
        surname == SplitName(clean)[2]
    IN IF clean = ""
       THEN Failed(NoRes)
       ELSE IF attendee_id \notin DOMAIN attendees
       THEN Failed(NoRes)
       ELSE /\ attendees' = [attendees EXCEPT ![attendee_id] =
                                 RenamedRow(@, first_name, surname)]
            /\ added' = NoAdded
            /\ ret' = Returned(TRUE, NoRes)
            /\ quote' = NoQuote
            /\ UNCHANGED <<events, reservations, nextEventId, nextReservationId,
                           nextAttendeeId, edits, createdQty, qtyEdited, released,
                           snap, paidPrice>>

\* the rows the SELECT of admin_remove_guest_by_name matches
ByNameMatches(event_id, full_name, clean_name, clean_surname) ==
    {a \in DOMAIN attendees :
        LET r == reservations[attendees[a].reservation_id] IN
        /\ r.event_id = event_id
        /\ StripLower(r.status) \in
               {STATUS_PENDING, STATUS_APPROVED, "pending", "pending_payment",
                "pending_review", "pending_payment_approval"}
        /\ \/ LowerTrim(attendees[a].full_name) = LowerTrim(full_name)
           \/ /\ LowerTrim(attendees[a].name) = LowerTrim(clean_name)
              /\ LowerTrim(attendees[a].surname) = LowerTrim(clean_surname)}

\* fault: ORDER BY a.id ASC, the oldest matching attendee is taken
ResolveByName_oldest(event_id, name, surname) ==
    LET clean_name == Strip(name)
        clean_surname == Strip(surname)
        full_name == clean_name \o " " \o clean_surname
        matches == ByNameMatches(event_id, full_name, clean_name, clean_surname)
    IN IF clean_name = "" \/ clean_surname = "" \/ matches = {}
       THEN 0
       ELSE CHOOSE a \in matches : \A b \in matches : a <= b

\* ORDER BY a.id DESC LIMIT 1 over the matches; 0 when no row matches
ResolveByName(event_id, name, surname) ==
    LET clean_name == Strip(name)
        clean_surname == Strip(surname)
        full_name == clean_name \o " " \o clean_surname
        matches == ByNameMatches(event_id, full_name, clean_name, clean_surname)
    IN IF clean_name = "" \/ clean_surname = "" \/ matches = {}
       THEN 0
       ELSE CHOOSE a \in matches : \A b \in matches : b <= a

admin_remove_guest_by_name(event_id, name, surname) ==
    LET clean_name == Strip(name)
        clean_surname == Strip(surname)
        attendee_id == ResolveByName(event_id, name, surname)
    IN
    IF clean_name = "" \/ clean_surname = ""
    THEN Failed(NoRes)
    ELSE IF attendee_id = 0
    THEN Failed(NoRes)
    ELSE LET att == attendees[attendee_id]
             row == reservations[att.reservation_id]
         IN IF row.event_id \notin DOMAIN events
            THEN Failed(NoRes)
            ELSE LET event == events[row.event_id]
                     gender == IF att.gender \in {"boy", "girl"} THEN att.gender
                               ELSE "unknown"
                     unit_price == _reservation_unit_price(row, event, gender,
                                                           att.ticket_tier)
                     new_quantity == row.quantity - 1
                     release_tier == ReleaseTier(row, att.ticket_tier)
                 IN IF row.hold_applied = 1 /\ release_tier \notin TierKeys
                    THEN /\ attendees' = Without(attendees, attendee_id)
                         /\ paidPrice' = Without(paidPrice, attendee_id)
                         /\ ret' = Returned(FALSE, NoRes)
                         /\ quote' = NoQuote
                         /\ UNCHANGED <<events, reservations, nextEventId, edits,
                                        nextReservationId, nextAttendeeId, createdQty,
                                        qtyEdited, released, snap, added>>
                    ELSE
                      /\ attendees' = Without(attendees, attendee_id)
                      /\ paidPrice' = Without(paidPrice, attendee_id)
                      /\ events' = IF row.hold_applied = 1
                                   THEN [events EXCEPT ![row.event_id].qty[release_tier] = @ + 1]
                                   ELSE events
                      /\ reservations' = [reservations EXCEPT ![row.id] =
                             IF new_quantity <= 0
                             THEN CascadeRow(row)
                             ELSE GuestRemovedRow(row, gender, unit_price)]
                      /\ released' = IF new_quantity <= 0 /\ row.hold_applied = 1
                                     THEN released \cup {row.id} ELSE released
                      /\ snap' = SnapAfterGuest(row.id, new_quantity <= 0)
                      /\ added' = NoAdded
                      /\ ret' = Returned(TRUE, row.id)
                      /\ quote' = NoQuote
                      /\ UNCHANGED <<nextEventId, edits, nextReservationId, nextAttendeeId,
                                     createdQty, qtyEdited>>

\* ----------------------------------------------------------- event edits
PriceFields == {"early_boy", "early_girl", "tier1_boy", "tier1_girl",
                "tier2_boy", "tier2_girl"}
QtyFields == {"early_qty", "tier1_qty", "tier2_qty"}
TextFields == {"title", "location", "datetime", "caption", "photo"}

FieldTier(key) ==
    CASE key \in {"early_boy", "early_girl", "early_qty"} -> "early"
      [] key \in {"tier1_boy", "tier1_girl", "tier1_qty"} -> "tier1"
      [] OTHER -> "tier2"

\* fault: a quantity write resets the other tiers' quantities to 0
WithField_resets_others(event, key, value) ==
    IF key \in QtyFields
    THEN [event EXCEPT !.qty = [t \in TierKeys |-> IF t = FieldTier(key) THEN value ELSE 0]]
    ELSE IF key \in {"early_boy", "tier1_boy", "tier2_boy"}
    THEN [event EXCEPT !.boy_price[FieldTier(key)] = value]
    ELSE IF key \in {"early_girl", "tier1_girl", "tier2_girl"}
    THEN [event EXCEPT !.girl_price[FieldTier(key)] = value]
    ELSE event

\* the event row with one column written
WithField(event, key, value) ==
    IF key \in QtyFields
    THEN [event EXCEPT !.qty[FieldTier(key)] = value]
    ELSE IF key \in {"early_boy", "tier1_boy", "tier2_boy"}
    THEN [event EXCEPT !.boy_price[FieldTier(key)] = value]
    ELSE IF key \in {"early_girl", "tier1_girl", "tier2_girl"}
    THEN [event EXCEPT !.girl_price[FieldTier(key)] = value]
    ELSE event

set_event_price(event_id, price_field, value) ==
    IF price_field \notin PriceFields
    THEN Failed(NoRes)
    ELSE IF event_id \notin DOMAIN events
    THEN Failed(NoRes)
    ELSE /\ edits < MaxEdits
         /\ events' = [events EXCEPT ![event_id] = WithField(@, price_field, value)]
         /\ edits' = edits + 1
         /\ snap' = NoSnap
         /\ added' = NoAdded
         /\ ret' = Returned(TRUE, NoRes)
         /\ quote' = NoQuote
         /\ UNCHANGED <<reservations, attendees, nextEventId, nextReservationId,
                        nextAttendeeId, createdQty, qtyEdited, released, paidPrice>>

\* fault: no sign test on the values
FieldAccepted_any_sign(key, value) ==
    key \in PriceFields \cup QtyFields \cup TextFields

\* the per-key validation of set_event_fields
FieldAccepted(key, value) ==
    /\ key \in PriceFields \cup QtyFields \cup TextFields
    /\ key \in QtyFields => ~(value < 0)
    /\ key \in PriceFields => ~(value < 0)

RECURSIVE ApplyUpdates(_, _)
ApplyUpdates(event, updates) ==
    IF updates = <<>> THEN event
    ELSE ApplyUpdates(WithField(event, Head(updates)[1], Head(updates)[2]),
                      Tail(updates))

set_event_fields(event_id, updates) ==
    IF updates = <<>>
    THEN Failed(NoRes)
    ELSE IF \E i \in DOMAIN updates : ~FieldAccepted(updates[i][1], updates[i][2])
    THEN Failed(NoRes)
    ELSE IF event_id \notin DOMAIN events
    THEN Failed(NoRes)
    ELSE /\ edits < MaxEdits
         /\ events' = [events EXCEPT ![event_id] = ApplyUpdates(@, updates)]
         /\ edits' = edits + 1
         /\ qtyEdited' = IF \E i \in DOMAIN updates : updates[i][1] \in QtyFields
                         THEN qtyEdited \cup {event_id} ELSE qtyEdited
         /\ snap' = NoSnap
         /\ added' = NoAdded
         /\ ret' = Returned(TRUE, NoRes)
         /\ quote' = NoQuote
         /\ UNCHANGED <<reservations, attendees, nextEventId, nextReservationId,
                        nextAttendeeId, createdQty, released, paidPrice>>

\* what delete_event returns: the flag and the counts of rows it deleted
Deleted(ok, event_count, reservation_count, attendee_count) ==
    [ok |-> ok, res |-> NoRes,
     deleted |-> [events |-> event_count, reservations |-> reservation_count,
                  attendees |-> attendee_count]]

\* fault: the attendee rows of the event's reservations are left behind
delete_event_keeps_attendees(event_id) ==
    IF event_id \notin DOMAIN events
    THEN /\ ret' = Deleted(FALSE, 0, 0, 0)
         /\ quote' = NoQuote
         /\ UNCHANGED <<tables, history>>
    ELSE LET gone == {r \in DOMAIN reservations : reservations[r].event_id = event_id}
             goneAtt == {a \in DOMAIN attendees : attendees[a].reservation_id \in gone}
         IN /\ reservations' = [r \in DOMAIN reservations \ gone |-> reservations[r]]
            /\ events' = Without(events, event_id)
            /\ snap' = NoSnap
            /\ added' = NoAdded
            /\ ret' = Deleted(TRUE, 1, Cardinality(gone), Cardinality(goneAtt))
            /\ quote' = NoQuote
            /\ UNCHANGED <<attendees, paidPrice, nextEventId, edits, nextReservationId,
                           nextAttendeeId, createdQty, qtyEdited, released>>

delete_event(event_id) ==
    IF event_id \notin DOMAIN events
    THEN /\ ret' = Deleted(FALSE, 0, 0, 0)
         /\ quote' = NoQuote
         /\ UNCHANGED <<tables, history>>
    ELSE LET gone == {r \in DOMAIN reservations : reservations[r].event_id = event_id}
             goneAtt == {a \in DOMAIN attendees : attendees[a].reservation_id \in gone}
         IN /\ attendees' = [a \in DOMAIN attendees \ goneAtt |-> attendees[a]]
            /\ paidPrice' = [a \in DOMAIN paidPrice \ goneAtt |-> paidPrice[a]]
            /\ reservations' = [r \in DOMAIN reservations \ gone |-> reservations[r]]
            /\ events' = Without(events, event_id)
            /\ snap' = NoSnap
            /\ added' = NoAdded
            /\ ret' = Deleted(TRUE, 1, Cardinality(gone), Cardinality(goneAtt))
            /\ quote' = NoQuote
            /\ UNCHANGED <<nextEventId, edits, nextReservationId, nextAttendeeId,
                           createdQty, qtyEdited, released>>

\* ------------------------------------------------------------------ Next
NameLists == {SubSeq(Roster, 1, n) : n \in 1..MaxParty}
ReservationIds == 1..MaxReservations
AttendeeIds == 1..MaxAttendees
EventIds == 1..MaxEvents
AllUserIds == UserIds \cup {_ensure_user_for_tg(tg) : tg \in AdminTgIds}

\* one call of a method, bookings being the (boys, girls) pairs asked for
Calls(bookings) ==
    \/ \E qty \in QtyProfiles : create_event(qty) /\ Sequential
    \/ \E e \in EventIds, bg \in QuoteProbes : quote_booking(e, bg[1], bg[2]) /\ Sequential
    \/ \E u \in UserIds, e \in EventIds, bg \in bookings, names \in NameLists :
          create_pending_reservation(u, e, bg[1], bg[2], names) /\ Sequential
    \/ \E r \in ReservationIds, admin \in AdminTgIds : approve_reservation(r, admin) /\ Sequential
    \/ \E r \in ReservationIds, admin \in AdminTgIds, note \in NoteInputs :
          reject_reservation(r, admin, note) /\ Sequential
    \/ \E u \in AllUserIds, r \in ReservationIds : cancel_reservation_for_user(u, r) /\ Sequential
    \/ \E r \in ReservationIds, n \in GuestNameInputs, g \in GenderInputs :
          admin_add_guest(r, n, g) /\ Sequential
    \/ \E admin \in SellerTgIds, e \in EventIds, n \in WalkInInputs, g \in GenderInputs :
          admin_add_guest_by_event(admin, e, n[1], n[2], g, n[3]) /\ Sequential
    \/ \E admin \in SellerTgIds, e \in EventIds, n \in ImportInputs :
          admin_import_guest_by_event(admin, e, n[1], n[2]) /\ Sequential
    \/ \E a \in AttendeeIds : admin_remove_guest(a) /\ Sequential
    \/ \E e \in EventIds, n \in RemoveNameInputs :
          admin_remove_guest_by_name(e, n[1], n[2]) /\ Sequential
    \/ \E e \in EventIds, f \in PriceFieldInputs, v \in PriceInputs :
          set_event_price(e, f, v) /\ Sequential
    \/ \E e \in EventIds, u \in UpdateInputs : set_event_fields(e, u) /\ Sequential
    \/ \E e \in EventIds : delete_event(e) /\ Sequential

\* every caller, the booking endpoint that passes the counts on unchecked included
Next == Calls(BookingInputs)

Spec == Init /\ [][Next]_vars

\* the callers that refuse a negative count before they book (the bot's handlers)
ValidatedBookingInputs == {bg \in BookingInputs : bg[1] >= 0 /\ bg[2] >= 0}

NextValidated == Calls(ValidatedBookingInputs)

SpecValidated == Init /\ [][NextValidated]_vars

\* ------------------------------------ two threads on the one connection
\* The Database object holds one sqlite3 connection opened with
\* check_same_thread=False and no lock: statements of two calls interleave, and
\* the transaction, its commit and its rollback belong to the connection, not
\* to the call. Each action below is one statement of one call.
RaceQtyProfiles == {[early |-> 1, tier1 |-> 0, tier2 |-> 0], [early |-> 1, tier1 |-> 1, tier2 |-> 0]}
RaceBookings == {<<1, 0>>, <<1, 1>>}
RaceUser == [A |-> 2, B |-> 3]
RaceName == [A |-> "Ann Lee", B |-> "Bob Ray"]
RaceAdmin == 902
RaceNote == "no payment"

\* sqlite3 opens a transaction before an INSERT, UPDATE or DELETE when none is open
Begun ==
    IF journal.open
    THEN journal
    ELSE [open |-> TRUE, events |-> events, reservations |-> reservations,
          attendees |-> attendees, nextReservationId |-> nextReservationId,
          nextAttendeeId |-> nextAttendeeId]

\* the (tier, count) pairs of the tiers with a positive count, in tier order
HoldPairs(counts) ==
    SelectSeq([i \in 1..3 |-> <<TierOrder[i], counts[TierOrder[i]]>>],
              LAMBDA pair : pair[2] > 0)

Step(t, next) == callers' = [callers EXCEPT ![t] = next]

Finished(t, result) ==
    Step(t, [callers[t] EXCEPT !.pc = "done", !.result = result])

RaceFrame == UNCHANGED <<nextEventId, edits, ret, quote, history, columns, migrations>>

\* create_pending_reservation up to its plan: get_event, _allocate_tier_plan
\* and the attendee count check
begin_create(t, boys, girls) ==
    /\ callers[t].pc = "idle"
    /\ LET event_id == 1
           me == [callers[t] EXCEPT !.op = "create", !.user_id = RaceUser[t],
                                    !.event_id = event_id, !.boys = boys, !.girls = girls]
       IN IF event_id \notin DOMAIN events
          THEN Step(t, [me EXCEPT !.pc = "done", !.result = "raised"])
          ELSE LET plan == _allocate_tier_plan(events[event_id], boys, girls)
               IN IF ~plan.ok
                  THEN Step(t, [me EXCEPT !.pc = "done", !.result = "raised"])
                  ELSE Step(t, [me EXCEPT !.pc = "insert_reservation", !.plan = plan,
                                          !.allocs = plan.attendee_allocations,
                                          !.todo = HoldPairs(plan.hold_counts)])
    /\ UNCHANGED <<events, reservations, attendees, nextReservationId, nextAttendeeId,
                   journal>>
    /\ RaceFrame

\* INSERT INTO reservations ...; reservation_id = cursor.lastrowid
create_insert_reservation(t) ==
    /\ callers[t].pc = "insert_reservation"
    /\ LET me == callers[t]
           id == nextReservationId
       IN /\ reservations' = (id :> NewReservation(id, me.user_id, me.event_id,
                 me.plan.primary_tier_key, me.plan.quantity, me.plan.total_price,
                 me.boys, me.girls, STATUS_PENDING, "", NULL, NULL, 1))
                 @@ reservations
          /\ nextReservationId' = id + 1
          /\ Step(t, [me EXCEPT !.pc = "insert_attendee", !.reservation_id = id])
    /\ journal' = Begun
    /\ UNCHANGED <<events, attendees, nextAttendeeId>>
    /\ RaceFrame

\* INSERT INTO attendees ... for the next name of the call
create_insert_attendee(t) ==
    /\ callers[t].pc = "insert_attendee"
    /\ LET me == callers[t]
           alloc == Head(me.allocs)
           full_name == RaceName[t]
       IN /\ attendees' = (nextAttendeeId :>
                 NewAttendee(me.reservation_id, _name_parts(full_name)[1],
                             _name_parts(full_name)[2], full_name, alloc.gender,
                             alloc.tier_key)) @@ attendees
          /\ nextAttendeeId' = nextAttendeeId + 1
          /\ Step(t, [me EXCEPT !.allocs = Tail(@),
                                !.pc = IF Tail(me.allocs) = <<>> THEN "hold"
                                       ELSE "insert_attendee"])
    /\ journal' = Begun
    /\ UNCHANGED <<events, reservations, nextReservationId>>
    /\ RaceFrame

\* UPDATE events SET qty = qty - ? WHERE id = ? AND qty >= ? for the next tier
create_hold(t) ==
    /\ callers[t].pc = "hold"
    /\ LET me == callers[t]
           tier == Head(me.todo)[1]
           n == Head(me.todo)[2]
       IN IF me.event_id \in DOMAIN events /\ events[me.event_id].qty[tier] >= n
          THEN /\ events' = [events EXCEPT ![me.event_id].qty[tier] = @ - n]
               /\ Step(t, [me EXCEPT !.todo = Tail(@),
                                     !.pc = IF Tail(me.todo) = <<>> THEN "commit"
                                            ELSE "hold"])
          ELSE /\ events' = events
               /\ Step(t, [me EXCEPT !.pc = "rollback", !.rowcount0 = TRUE])
    /\ journal' = Begun
    /\ UNCHANGED <<reservations, attendees, nextReservationId, nextAttendeeId>>
    /\ RaceFrame

\* self.conn.rollback(); raise ValueError("Not enough tickets remaining ...")
create_rollback(t) ==
    /\ callers[t].pc = "rollback"
    /\ IF journal.open
       THEN /\ events' = journal.events
            /\ reservations' = journal.reservations
            /\ attendees' = journal.attendees
            /\ nextReservationId' = journal.nextReservationId
            /\ nextAttendeeId' = journal.nextAttendeeId
       ELSE UNCHANGED <<events, reservations, attendees, nextReservationId,
                        nextAttendeeId>>
    /\ journal' = NoJournal
    /\ Finished(t, "raised")
    /\ RaceFrame

\* cancel_reservation_for_user up to its status check
begin_cancel(t, reservation_code) ==
    /\ callers[t].pc = "idle"
    /\ LET me == [callers[t] EXCEPT !.op = "cancel", !.user_id = 1]
       IN IF \/ reservation_code \notin DOMAIN reservations
             \/ reservations[reservation_code].user_id # 1
          THEN Step(t, [me EXCEPT !.pc = "done", !.result = "refused"])
          ELSE LET row == reservations[reservation_code]
               IN IF cancel_inactive(row)
                  THEN Step(t, [me EXCEPT !.pc = "done", !.result = "refused"])
                  ELSE Step(t, [me EXCEPT !.pc = "count", !.row = row,
                                          !.reservation_id = row.id,
                                          !.event_id = row.event_id])
    /\ UNCHANGED <<events, reservations, attendees, nextReservationId, nextAttendeeId,
                   journal>>
    /\ RaceFrame

\* reject_reservation up to its status check
begin_reject(t, reservation_id) ==
    /\ callers[t].pc = "idle"
    /\ LET me == [callers[t] EXCEPT !.op = "reject", !.user_id = RaceAdmin]
       IN IF reservation_id \notin DOMAIN reservations
          THEN Step(t, [me EXCEPT !.pc = "done", !.result = "refused"])
          ELSE LET row == reservations[reservation_id]
               IN IF ~reject_allowed(row)
                  THEN Step(t, [me EXCEPT !.pc = "done", !.result = "refused"])
                  ELSE Step(t, [me EXCEPT !.pc = "count", !.row = row,
                                          !.reservation_id = row.id,
                                          !.event_id = row.event_id])
    /\ UNCHANGED <<events, reservations, attendees, nextReservationId, nextAttendeeId,
                   journal>>
    /\ RaceFrame

\* _release_hold up to its loop: the hold flag of the row read at the start,
\* then SELECT ... COUNT(*) FROM attendees GROUP BY ticket_tier as it is now
release_count(t) ==
    /\ callers[t].pc = "count"
    /\ LET me == callers[t]
           pairs == IF me.row.hold_applied # 1 THEN <<>>
                    ELSE HoldPairs(ReleaseCounts(me.row))
       IN Step(t, [me EXCEPT !.todo = pairs,
                             !.pc = IF pairs = <<>> THEN "close" ELSE "credit"])
    /\ UNCHANGED <<events, reservations, attendees, nextReservationId, nextAttendeeId,
                   journal>>
    /\ RaceFrame

\* UPDATE events SET qty = qty + ? WHERE id = ? for the next tier to credit
release_credit(t) ==
    /\ callers[t].pc = "credit"
    /\ LET me == callers[t]
           tier == Head(me.todo)[1]
           n == Head(me.todo)[2]
       IN /\ events' = IF me.event_id \in DOMAIN events
                       THEN [events EXCEPT ![me.event_id].qty[tier] = @ + n]
                       ELSE events
          /\ Step(t, [me EXCEPT !.todo = Tail(@),
                                !.pc = IF Tail(me.todo) # <<>> THEN "credit"
                                       ELSE IF me.op = "remove" THEN "settle"
                                       ELSE "close"])
    /\ journal' = Begun
    /\ UNCHANGED <<reservations, attendees, nextReservationId, nextAttendeeId>>
    /\ RaceFrame

\* UPDATE reservations SET status = ?, hold_applied = 0 ... WHERE id = ?
release_close(t) ==
    /\ callers[t].pc = "close"
    /\ LET me == callers[t]
           id == me.reservation_id
       IN /\ reservations' =
                 IF id \notin DOMAIN reservations THEN reservations
                 ELSE [reservations EXCEPT ![id] =
                          IF me.op = "cancel" THEN CancelledRow(@)
                          ELSE RejectedRow(@, RaceAdmin, RaceNote)]
          /\ Step(t, [me EXCEPT !.pc = "commit"])
    /\ journal' = Begun
    /\ UNCHANGED <<events, attendees, nextReservationId, nextAttendeeId>>
    /\ RaceFrame

\* admin_remove_guest up to the values it computes from the joined row
begin_remove(t, attendee_id) ==
    /\ callers[t].pc = "idle"
    /\ LET me == [callers[t] EXCEPT !.op = "remove", !.user_id = RaceAdmin,
                                    !.attendee_id = attendee_id]
       IN IF attendee_id \notin DOMAIN attendees
          THEN Step(t, [me EXCEPT !.pc = "done", !.result = "refused"])
          ELSE LET att == attendees[attendee_id]
                   row == reservations[att.reservation_id]
                   gender == IF att.gender \in {"boy", "girl"} THEN att.gender
                             ELSE "unknown"
               IN IF \/ ~_is_admin_mutable_reservation_status(row.status)
                     \/ row.event_id \notin DOMAIN events
                  THEN Step(t, [me EXCEPT !.pc = "done", !.result = "refused"])
                  ELSE Step(t, [me EXCEPT !.pc = "delete", !.row = row,
                                          !.reservation_id = row.id,
                                          !.event_id = row.event_id,
                                          !.todo = IF row.hold_applied = 1
                                                   THEN << <<ReleaseTier(row, att.ticket_tier), 1>> >>
                                                   ELSE <<>>,
                                          !.plan =
                                              [ok |-> TRUE,
                                               new_quantity |-> row.quantity - 1,
                                               settled |-> GuestRemovedRow(row, gender,
                                                   _reservation_unit_price(row,
                                                       events[row.event_id], gender,
                                                       att.ticket_tier))]])
    /\ UNCHANGED <<events, reservations, attendees, nextReservationId, nextAttendeeId,
                   journal>>
    /\ RaceFrame

\* DELETE FROM attendees WHERE id = ?
remove_delete(t) ==
    /\ callers[t].pc = "delete"
    /\ LET me == callers[t]
       IN /\ attendees' = Without(attendees, me.attendee_id)
          /\ Step(t, [me EXCEPT !.pc = IF me.todo = <<>> THEN "settle" ELSE "credit"])
    /\ journal' = Begun
    /\ UNCHANGED <<events, reservations, nextReservationId, nextAttendeeId>>
    /\ RaceFrame

\* UPDATE reservations SET quantity = ..., boys, girls, total_price [, status,
\* hold_applied] WHERE id = ?, with the values computed from the row read first
remove_settle(t) ==
    /\ callers[t].pc = "settle"
    /\ LET me == callers[t]
           id == me.reservation_id
       IN /\ reservations' =
                 IF id \notin DOMAIN reservations THEN reservations
                 ELSE [reservations EXCEPT ![id] =
                          IF me.plan.new_quantity <= 0
                          THEN CascadeRow(@)
                          ELSE [@ EXCEPT !.quantity = me.plan.settled.quantity,
                                         !.boys = me.plan.settled.boys,
                                         !.girls = me.plan.settled.girls,
                                         !.total_price = me.plan.settled.total_price]]
          /\ Step(t, [me EXCEPT !.pc = "commit"])
    /\ journal' = Begun
    /\ UNCHANGED <<events, attendees, nextReservationId, nextAttendeeId>>
    /\ RaceFrame

\* self.conn.commit(): whatever the connection holds becomes permanent
call_commit(t) ==
    /\ callers[t].pc = "commit"
    /\ journal' = NoJournal
    /\ Step(t, [callers[t] EXCEPT !.pc = "fetch"])
    /\ UNCHANGED <<events, reservations, attendees, nextReservationId, nextAttendeeId>>
    /\ RaceFrame

\* return self.get_reservation(id): Reservation(**dict(row)) raises TypeError
\* when the row is not there
call_fetch(t) ==
    /\ callers[t].pc = "fetch"
    /\ Finished(t, IF callers[t].reservation_id \in DOMAIN reservations
                   THEN "returned" ELSE "raised")
    /\ UNCHANGED <<events, reservations, attendees, nextReservationId, nextAttendeeId,
                   journal>>
    /\ RaceFrame

\* a store with one event and one pending reservation of user 1 on it (one boy
\* in the early tier, the hold applied), and two threads about to call
InitRace ==
    \E qty \in RaceQtyProfiles :
        /\ events = (1 :> [qty |-> qty, boy_price |-> BoyPrices, girl_price |-> GirlPrices])
        /\ reservations = (1 :> NewReservation(1, 1, 1, "early", 1, BoyPrices["early"],
                                               1, 0, STATUS_PENDING, "", NULL, NULL, 1))
        /\ attendees = (1 :> NewAttendee(1, "Cy", "Poe", "Cy Poe", "boy", "early"))
        /\ nextEventId = 2
        /\ nextReservationId = 2
        /\ nextAttendeeId = 2
        /\ edits = 0
        /\ quote = NoQuote
        /\ ret = Returned(TRUE, NoRes)
        /\ createdQty = (1 :> [qty EXCEPT !["early"] = @ + 1])
        /\ qtyEdited = {}
        /\ released = {}
        /\ snap = NoSnap
        /\ added = NoAdded
        /\ paidPrice = (1 :> BoyPrices["early"])
        /\ journal = NoJournal
        /\ columns = LatestColumns
        /\ migrations = 0
    /\ columns = LatestColumns
    /\ migrations = 0
        /\ callers = [t \in Callers |-> Idle]

NextRace ==
    \E t \in Callers :
        \/ \E bg \in RaceBookings : begin_create(t, bg[1], bg[2])
        \/ create_insert_reservation(t)
        \/ create_insert_attendee(t)
        \/ create_hold(t)
        \/ create_rollback(t)
        \/ begin_cancel(t, 1)
        \/ begin_reject(t, 1)
        \/ release_count(t)
        \/ release_credit(t)
        \/ release_close(t)
        \/ begin_remove(t, 1)
        \/ remove_delete(t)
        \/ remove_settle(t)
        \/ call_commit(t)
        \/ call_fetch(t)

SpecRace == InitRace /\ [][NextRace]_vars

\* ------------------------------------------------------ an opened store
\* statuses and ticket types an existing store may hold when it is opened:
\* what this code writes, the spellings of earlier versions that
\* _is_admin_mutable_reservation_status tolerates, and a ticket type from the
\* time of the single regular_price column
OpenedStatuses ==
    {STATUS_PENDING, STATUS_APPROVED, STATUS_REJECTED, STATUS_CANCELLED,
     "pending", " Pending ", "APPROVED", "pending_review"}
OpenedTicketTypes == {"early", "regular"}

\* a stored reservation of one boy, holding its unit unless it is inactive
OpenedReservation(id, event_id, status, ticket_type) ==
    NewReservation(id, 1, event_id, ticket_type, 1, BoyPrices["early"], 1, 0,
                   status, "", NULL, NULL,
                   IF status \in {STATUS_REJECTED, STATUS_CANCELLED} THEN 0 ELSE 1)

\* the store after __init__ (_init_schema, _migrate_schema) on an existing
\* file: two events, two reservations of one attendee each, same guest name;
\* _migrate_schema has copied each reservation's ticket_type to its attendee
InitOpened ==
    /\ \E s1 \in OpenedStatuses, t1 \in OpenedTicketTypes,
          s2 \in {STATUS_APPROVED, STATUS_REJECTED}, e2 \in {1, 2} :
          /\ reservations = (1 :> OpenedReservation(1, 1, s1, t1))
                             @@ (2 :> OpenedReservation(2, e2, s2, "early"))
          /\ attendees = (1 :> NewAttendee(1, "Ann", "Lee", "Ann Lee", "boy", t1))
                          @@ (2 :> NewAttendee(2, "Ann", "Lee", "Ann Lee", "boy", "early"))
    /\ events = (1 :> [qty |-> [early |-> 0, tier1 |-> 1, tier2 |-> 0],
                        boy_price |-> BoyPrices, girl_price |-> GirlPrices])
                 @@ (2 :> [qty |-> [early |-> 1, tier1 |-> 1, tier2 |-> 0],
                           boy_price |-> BoyPrices, girl_price |-> GirlPrices])
    /\ nextEventId = 3
    /\ nextReservationId = 3
    /\ nextAttendeeId = 3
    /\ edits = 0
    /\ quote = NoQuote
    /\ ret = Returned(TRUE, NoRes)
    /\ createdQty = (1 :> [early |-> 0, tier1 |-> 1, tier2 |-> 0])
                     @@ (2 :> [early |-> 1, tier1 |-> 1, tier2 |-> 0])
    /\ qtyEdited = {}
    /\ released = {}
    /\ snap = NoSnap
    /\ added = NoAdded
    /\ paidPrice = (1 :> BoyPrices["early"]) @@ (2 :> BoyPrices["early"])
    /\ journal = NoJournal
    /\ columns = LatestColumns
    /\ migrations = 0
    /\ callers = [t \in Callers |-> Idle]

\* ------------------------------------------------ the spreadsheet import
\* _parse_guest_row: a row to skip (empty, header) or the (name, surname) read
_parse_guest_row(row, row_index) ==
    LET value_name == row[1]
        value_surname == row[2]
    IN IF value_name = "" /\ value_surname = ""
       THEN [skip |-> TRUE, reason |-> "empty", name |-> "", surname |-> ""]
       ELSE IF row_index = 1 /\ value_name = "name" /\ value_surname = "surname"
       THEN [skip |-> TRUE, reason |-> "header", name |-> "", surname |-> ""]
       ELSE IF value_name # "" /\ value_surname = "" /\ value_name \in {"Bob Ray", "Ann Lee"}
       THEN [skip |-> FALSE, reason |-> "", name |-> SplitName(value_name)[1],
             surname |-> SplitName(value_name)[2]]
       ELSE IF value_name = ""
       THEN [skip |-> FALSE, reason |-> "", name |-> value_surname, surname |-> ""]
       ELSE [skip |-> FALSE, reason |-> "", name |-> value_name, surname |-> value_surname]

\* the rows of a sheet that the parser hands on
ParsedRows(sheet) ==
    {i \in 1..Len(sheet) : ~_parse_guest_row(sheet[i], i).skip}

\* the store and the counters of the endpoint while it walks the sheet
Walk(ev, res, att, paid, nr, na, n_added, n_skipped) ==
    [events |-> ev, reservations |-> res, attendees |-> att, paidPrice |-> paid,
     nextReservationId |-> nr, nextAttendeeId |-> na, added |-> n_added,
     skipped |-> n_skipped]

\* db.admin_add_guest_by_event(..., allow_missing_surname=True) for one row
ImportRow(st, admin_tg_id, event_id, name, surname, gender_raw) ==
    LET gender == _normalize_gender(gender_raw)
        id == st.nextReservationId
    IN IF gender = NULL \/ name = "" \/ event_id \notin DOMAIN st.events
       THEN [st EXCEPT !.skipped = @ + 1]
       ELSE LET event == st.events[event_id]
                tier == active_tier(event)
            IN IF tier = NoTier
               THEN [st EXCEPT !.skipped = @ + 1]
               ELSE LET prices == _tier_prices(event, tier)
                        price == IF gender = "boy" THEN prices[1] ELSE prices[2]
                        full_name == IF surname = "" THEN name
                                     ELSE name \o " " \o surname
                    IN Walk([st.events EXCEPT ![event_id].qty[tier] = @ - 1],
                            (id :> NewReservation(id, _ensure_user_for_tg(admin_tg_id),
                                       event_id, tier, 1, price,
                                       IF gender = "boy" THEN 1 ELSE 0,
                                       IF gender = "girl" THEN 1 ELSE 0, STATUS_APPROVED,
                                       "Added by admin dashboard", "now", admin_tg_id, 1))
                                @@ st.reservations,
                            (st.nextAttendeeId :>
                                 NewAttendee(id, name, surname, full_name, gender, tier))
                                @@ st.attendees,
                            (st.nextAttendeeId :> price) @@ st.paidPrice,
                            id + 1, st.nextAttendeeId + 1, st.added + 1, st.skipped)

\* for row_index, row in enumerate(sheet.iter_rows(...), start=1)
RECURSIVE ImportRows(_, _, _, _, _, _)
ImportRows(st, admin_tg_id, event_id, gender_raw, sheet, row_index) ==
    IF row_index > Len(sheet)
    THEN st
    ELSE LET parsed == _parse_guest_row(sheet[row_index], row_index)
             after == IF parsed.skip
                      THEN IF parsed.reason \in {"empty", "header"}
                           THEN st
                           ELSE [st EXCEPT !.skipped = @ + 1]
                      ELSE ImportRow(st, admin_tg_id, event_id, parsed.name,
                                     parsed.surname, gender_raw)
         IN ImportRows(after, admin_tg_id, event_id, gender_raw, sheet, row_index + 1)

\* POST /api/admin/guest/import_xlsx
admin_guest_import_xlsx(tg_id, event_id, gender, sheet) ==
    LET done == ImportRows(Walk(events, reservations, attendees, paidPrice,
                                nextReservationId, nextAttendeeId, 0, 0),
                           tg_id, event_id, gender, sheet, 1)
    IN /\ nextReservationId + Cardinality(ParsedRows(sheet)) <= MaxReservations + 1
       /\ nextAttendeeId + Cardinality(ParsedRows(sheet)) <= MaxAttendees + 1
       /\ events' = done.events
       /\ reservations' = done.reservations
       /\ attendees' = done.attendees
       /\ paidPrice' = done.paidPrice
       /\ nextReservationId' = done.nextReservationId
       /\ nextAttendeeId' = done.nextAttendeeId
       /\ ret' = Returned(TRUE, NoRes)
       /\ snap' = NoSnap
       /\ added' = NoAdded
       /\ quote' = NoQuote
       /\ UNCHANGED <<nextEventId, edits, createdQty, qtyEdited, released>>

\* the import desk: events of any stock, sheets imported, imported guests
\* taken off again
NextImport ==
    \/ \E qty \in QuoteQtyProfiles : create_event(qty) /\ Sequential
    \/ \E tg \in SellerTgIds, e \in EventIds, g \in GenderInputs, sheet \in SheetInputs :
          admin_guest_import_xlsx(tg, e, g, sheet) /\ Sequential
    \/ \E a \in AttendeeIds : admin_remove_guest(a) /\ Sequential

SpecImport == Init /\ [][NextImport]_vars

\* the two events of the opened store and an id no event has
OpenedEventIds == {1, 2, 3}

\* the guest operations of the admin dashboard on the opened store
NextOpened ==
    \/ \E r \in DOMAIN reservations, n \in GuestNameInputs, g \in GenderInputs :
          admin_add_guest(r, n, g) /\ Sequential
    \/ \E a \in AttendeeIds : admin_remove_guest(a) /\ Sequential
    \/ \E a \in AttendeeIds, n \in RenameInputs : admin_rename_guest(a, n) /\ Sequential
    \/ \E e \in DOMAIN events, n \in RemoveNameInputs :
          admin_remove_guest_by_name(e, n[1], n[2]) /\ Sequential
    \/ \E e \in OpenedEventIds : delete_event(e) /\ Sequential

SpecOpened == InitOpened /\ [][NextOpened]_vars

\* the allocation engine over every stock and request of its bounds: events of
\* any stock, bookings that hold part of it, and quotes
NextQuote ==
    \/ \E qty \in QuoteQtyProfiles : create_event(qty) /\ Sequential
    \/ \E e \in EventIds, bg \in QuoteInputs : quote_booking(e, bg[1], bg[2]) /\ Sequential
    \/ \E u \in UserIds, e \in EventIds, bg \in BookingInputs, names \in NameLists :
          create_pending_reservation(u, e, bg[1], bg[2], names) /\ Sequential

SpecQuote == Init /\ [][NextQuote]_vars

\* ------------------------------------------------- the startup migration
\* the tables of a file written by the oldest release
LegacyColumns ==
    [events |-> {"id", "title", "event_datetime", "location", "early_bird_price",
                 "regular_price", "early_bird_qty", "capacity", "status"},
     reservations |-> {"id", "code", "user_id", "event_id", "ticket_type", "quantity",
                       "price_per_ticket", "total_price", "boys", "girls", "status",
                       "created_at"},
     attendees |-> {"id", "reservation_id", "name", "surname", "status"}]

\* the tables _init_schema creates in a new file: attendees has no gender yet
CreatedColumns == [LatestColumns EXCEPT !.attendees = @ \ {"gender"}]

\* ALTER TABLE ... ADD COLUMN for every column the pass adds when it is missing
MigratedColumns(cols) ==
    [events |-> cols.events \cup
                {"caption", "photo_file_id", "regular_tier1_price", "regular_tier1_qty",
                 "regular_tier2_price", "regular_tier2_qty", "early_bird_price_girl",
                 "regular_tier1_price_girl", "regular_tier2_price_girl"},
     reservations |-> cols.reservations \cup
                {"payment_file_id", "payment_file_type", "admin_note", "reviewed_at",
                 "reviewed_by_tg_id", "hold_applied"},
     attendees |-> cols.attendees \cup {"full_name", "gender", "ticket_tier"}]

\* an event row after the ADD COLUMN statements and their UPDATEs
MigratedEvent(event, cols) ==
    LET tier1_price == IF "regular_tier1_price" \notin cols
                       THEN IF "regular_price" \in cols THEN event.regular_price ELSE 0
                       ELSE event.boy_price["tier1"]
        tier2_price == IF "regular_tier2_price" \notin cols THEN 0
                       ELSE event.boy_price["tier2"]
    IN [event EXCEPT
          !.boy_price = [@ EXCEPT !["tier1"] = tier1_price, !["tier2"] = tier2_price],
          !.qty = [@ EXCEPT
                     !["tier1"] = IF "regular_tier1_qty" \notin cols THEN 0 ELSE @,
                     !["tier2"] = IF "regular_tier2_qty" \notin cols THEN 0 ELSE @],
          !.girl_price = [@ EXCEPT
                     !["early"] = IF "early_bird_price_girl" \notin cols
                                  THEN event.boy_price["early"] ELSE @,
                     !["tier1"] = IF "regular_tier1_price_girl" \notin cols
                                  THEN tier1_price ELSE @,
                     !["tier2"] = IF "regular_tier2_price_girl" \notin cols
                                  THEN tier2_price ELSE @]]

\* a reservation row after the ADD COLUMN defaults and the 'reserved' UPDATE
MigratedReservation(row, cols) ==
    [row EXCEPT
       !.admin_note = IF "admin_note" \notin cols THEN "" ELSE @,
       !.reviewed_at = IF "reviewed_at" \notin cols THEN NULL ELSE @,
       !.reviewed_by_tg_id = IF "reviewed_by_tg_id" \notin cols THEN NULL ELSE @,
       !.hold_applied = IF "hold_applied" \notin cols THEN 1 ELSE @,
       !.status = IF row.status = "reserved" THEN STATUS_APPROVED ELSE row.status]

\* TRIM(name || ' ' || COALESCE(surname, ''))
TrimJoin(name, surname) ==
    IF name = "" THEN surname
    ELSE IF surname = "" THEN name
    ELSE name \o " " \o surname

\* fault: the position is counted among the rows that still have no gender
IdxOf_among_unknown(rows, a) ==
    Cardinality({b \in DOMAIN rows :
                    /\ rows[b].reservation_id = rows[a].reservation_id
                    /\ b < a
                    /\ rows[b].gender \in {NULL, "", "unknown"}})

\* enumerate(attendee_rows): the position of the attendee among the rows of
\* its reservation, ORDER BY id
IdxOf(rows, a) ==
    Cardinality({b \in DOMAIN rows : rows[b].reservation_id = rows[a].reservation_id /\ b < a})

\* _backfill_attendee_genders: per reservation, the first `boys` rows become
\* boys, the next `girls` rows girls, the rest unknown; only a row whose gender
\* is NULL, '' or 'unknown' is written
_backfill_attendee_genders(rows, reservation_rows) ==
    [a \in DOMAIN rows |->
        IF rows[a].reservation_id \notin DOMAIN reservation_rows
        THEN rows[a]
        ELSE LET boys == reservation_rows[rows[a].reservation_id].boys
                 girls == reservation_rows[rows[a].reservation_id].girls
                 idx == IdxOf(rows, a)
                 gender == IF idx < boys THEN "boy"
                           ELSE IF idx < boys + girls THEN "girl"
                           ELSE "unknown"
             IN IF rows[a].gender \in {NULL, "", "unknown"}
                THEN [rows[a] EXCEPT !.gender = gender]
                ELSE rows[a]]

\* the attendee rows after the ADD COLUMN defaults and the three backfills
MigratedAttendees(rows, reservation_rows, cols) ==
    LET defaulted == [a \in DOMAIN rows |->
            [rows[a] EXCEPT
               !.full_name = IF "full_name" \notin cols THEN "" ELSE @,
               !.gender = IF "gender" \notin cols THEN "unknown" ELSE @,
               !.ticket_tier = IF "ticket_tier" \notin cols THEN "" ELSE @]]
        named == [a \in DOMAIN rows |->
            IF defaulted[a].full_name = ""
            THEN [defaulted[a] EXCEPT !.full_name = TrimJoin(defaulted[a].name, defaulted[a].surname)]
            ELSE defaulted[a]]
        gendered == _backfill_attendee_genders(named, reservation_rows)
    IN [a \in DOMAIN rows |->
            IF gendered[a].ticket_tier = ""
            THEN [gendered[a] EXCEPT !.ticket_tier = reservation_rows[gendered[a].reservation_id].ticket_type]
            ELSE gendered[a]]

\* the largest number of passes run in a row
MaxMigrations == 2

\* _migrate_schema, the pass __init__ runs on every start
_migrate_schema ==
    /\ migrations < MaxMigrations
    /\ migrations' = migrations + 1
    /\ columns' = MigratedColumns(columns)
    /\ events' = [e \in DOMAIN events |-> MigratedEvent(events[e], columns.events)]
    /\ reservations' = [r \in DOMAIN reservations |->
                            MigratedReservation(reservations[r], columns.reservations)]
    /\ attendees' = MigratedAttendees(attendees,
                        [r \in DOMAIN reservations |->
                            MigratedReservation(reservations[r], columns.reservations)],
                        columns.attendees)
    /\ UNCHANGED <<nextEventId, nextReservationId, nextAttendeeId, edits, ret, quote,
                   history, journal, callers>>

\* the files the pass is run on: one written by the oldest release, one just
\* created by _init_schema, one already migrated; a column the file does not
\* have holds NULL in the rows below
StoredColumns == {LegacyColumns, CreatedColumns, LatestColumns}
StoredStatuses == {"reserved", STATUS_PENDING, STATUS_CANCELLED}
StoredCounts == {<<1, 0>>, <<1, 1>>, <<0, 0>>}
StoredTicketTypes == {"early", ""}
StoredGenders == {"unknown", "", "girl", "boy"}
StoredFullNames == {"", "Ann Lee"}
StoredTicketTiers == {"", "early"}

StoredEvent(cols) ==
    IF "regular_price" \in cols.events
    THEN [qty |-> [early |-> 1, tier1 |-> NULL, tier2 |-> NULL],
          boy_price |-> [early |-> BoyPrices["early"], tier1 |-> NULL, tier2 |-> NULL],
          girl_price |-> [t \in TierKeys |-> NULL],
          regular_price |-> BoyPrices["tier1"]]
    ELSE [qty |-> [early |-> 1, tier1 |-> 1, tier2 |-> 0],
          boy_price |-> BoyPrices, girl_price |-> GirlPrices]

StoredReservation(cols, status, boys, girls, ticket_type) ==
    NewReservation(1, 1, 1, ticket_type, 2, 2 * BoyPrices["early"], boys, girls, status,
                   IF "admin_note" \in cols.reservations THEN "" ELSE NULL, NULL, NULL,
                   IF "hold_applied" \in cols.reservations
                   THEN (IF status = STATUS_CANCELLED THEN 0 ELSE 1) ELSE NULL)

StoredAttendee(cols, name, surname, full_name, gender, ticket_tier) ==
    NewAttendee(1, name, surname,
                IF "full_name" \in cols.attendees THEN full_name ELSE NULL,
                IF "gender" \in cols.attendees THEN gender ELSE NULL,
                IF "ticket_tier" \in cols.attendees THEN ticket_tier ELSE NULL)

\* the file as it lies on disk before Database(path) opens it
InitStored ==
    /\ \E cols \in StoredColumns, status \in StoredStatuses, bg \in StoredCounts,
          ticket_type \in StoredTicketTypes, g1 \in StoredGenders, g2 \in StoredGenders,
          full_name \in StoredFullNames, ticket_tier \in StoredTicketTiers :
          /\ columns = cols
          /\ events = (1 :> StoredEvent(cols))
          /\ reservations = (1 :> StoredReservation(cols, status, bg[1], bg[2], ticket_type))
          /\ attendees = (1 :> StoredAttendee(cols, "Ann", "Lee", full_name, g1, ticket_tier))
                          @@ (2 :> StoredAttendee(cols, "Bob", "", full_name, g2, ticket_tier))
    /\ migrations = 0
    /\ nextEventId = 2
    /\ nextReservationId = 2
    /\ nextAttendeeId = 3
    /\ edits = 0
    /\ quote = NoQuote
    /\ ret = Returned(TRUE, NoRes)
    /\ createdQty = <<>>
    /\ qtyEdited = {}
    /\ released = {}
    /\ snap = NoSnap
    /\ added = NoAdded
    /\ paidPrice = <<>>
    /\ journal = NoJournal
    /\ callers = [t \in Callers |-> Idle]

\* Database(path) on the file, and again on the file it leaves
NextMigrate == _migrate_schema

SpecMigrate == InitStored /\ [][NextMigrate]_vars

\* the bookings made between two starts of the process
ReopenBookings == {<<1, 1>>}
ReopenGenders == {"boy", "F"}
ReopenWalkIns == {<<"Bob", "Ray", FALSE>>}

\* the store in use, the process stopped and started again at any moment
NextReopen ==
    \/ \E qty \in QtyProfiles : create_event(qty) /\ Sequential
    \/ \E u \in UserIds, e \in EventIds, bg \in ReopenBookings, names \in NameLists :
          create_pending_reservation(u, e, bg[1], bg[2], names) /\ Sequential
    \/ \E r \in ReservationIds, admin \in AdminTgIds : approve_reservation(r, admin) /\ Sequential
    \/ \E r \in ReservationIds, admin \in AdminTgIds, note \in NoteInputs :
          reject_reservation(r, admin, note) /\ Sequential
    \/ \E u \in UserIds, r \in ReservationIds : cancel_reservation_for_user(u, r) /\ Sequential
    \/ \E r \in ReservationIds, n \in GuestNameInputs, g \in ReopenGenders :
          admin_add_guest(r, n, g) /\ Sequential
    \/ \E admin \in SellerTgIds, e \in EventIds, n \in ReopenWalkIns, g \in ReopenGenders :
          admin_add_guest_by_event(admin, e, n[1], n[2], g, n[3]) /\ Sequential
    \/ \E admin \in SellerTgIds, e \in EventIds, n \in ImportInputs :
          admin_import_guest_by_event(admin, e, n[1], n[2]) /\ Sequential
    \/ \E a \in AttendeeIds : admin_remove_guest(a) /\ Sequential
    \/ \E a \in AttendeeIds, n \in RenameInputs : admin_rename_guest(a, n) /\ Sequential
    \/ _migrate_schema

SpecReopen == Init /\ [][NextReopen]_vars

\* ================================================================ claims
\* some call of the six reservation-level operations aimed at reservation r
OperatesOn(r) ==
    \/ \E admin \in AdminTgIds : approve_reservation(r, admin)
    \/ \E admin \in AdminTgIds, note \in NoteInputs : reject_reservation(r, admin, note)
    \/ \E u \in AllUserIds : cancel_reservation_for_user(u, r)
    \/ \E n \in GuestNameInputs, g \in GenderInputs : admin_add_guest(r, n, g)
    \/ \E a \in AttendeesOf(r) : admin_remove_guest(a)
    \/ \E e \in EventIds, n \in RemoveNameInputs :
          /\ ResolveByName(e, n[1], n[2]) \in AttendeesOf(r)
          /\ admin_remove_guest_by_name(e, n[1], n[2])

NoCounterGrows ==
    \A e \in DOMAIN events \cap DOMAIN events' : \A t \in TierKeys :
        events'[e].qty[t] <= events[e].qty[t]

\* C1: once a reservation's hold has been credited back (by reject, by cancel
\* or by the cascade of removing its last guest), no later approve, reject,
\* cancel, add-guest or remove-guest call on that reservation increases any
\* tier counter.
C1_ReleasedAtMostOnce ==
    [][\A r \in released : OperatesOn(r) => NoCounterGrows]_vars

\* a released reservation on which a later reject / approve / cancel was tried
C1_Witness ==
    \E r \in released :
        /\ r \in DOMAIN reservations
        /\ reservations[r].status \in {STATUS_REJECTED, STATUS_CANCELLED}
        /\ ret = Returned(FALSE, r)

\* attendee rows of tier t that sit in reservations of event e holding stock
HeldRows(e, t) ==
    {a \in DOMAIN attendees :
        /\ attendees[a].ticket_tier = t
        /\ reservations[attendees[a].reservation_id].event_id = e
        /\ reservations[attendees[a].reservation_id].hold_applied = 1}

\* C2: for an event whose quantities set_event_fields never wrote, every tier
\* satisfies remaining + (attendee rows of that tier in reservations with
\* hold_applied = 1) = the quantity the tier was created with.
C2_HoldAccounting ==
    \A e \in DOMAIN events :
        e \notin qtyEdited =>
            \A t \in TierKeys :
                events[e].qty[t] + Cardinality(HeldRows(e, t)) = createdQty[e][t]

\* C3: no tier's remaining quantity is negative in any reachable state.
C3_NoNegativeRemaining ==
    \A e \in DOMAIN events : \A t \in TierKeys : events[e].qty[t] >= 0

\* an event sold out in every tier, and the next call was refused
C3_Witness ==
    \E e \in DOMAIN events :
        /\ \A t \in TierKeys : events[e].qty[t] = 0
        /\ \E r \in DOMAIN reservations : reservations[r].hold_applied = 1
        /\ ret = Returned(FALSE, NoRes)

CancelledToZero(row) == row.status = STATUS_CANCELLED /\ row.quantity = 0

RECURSIVE SumOver(_, _)
SumOver(f, keys) ==
    IF keys = {} THEN 0
    ELSE LET k == CHOOSE x \in keys : TRUE
         IN f[k] + SumOver(f, keys \ {k})

\* C5: every reservation's total_price is the sum of the unit prices at which
\* its current attendees were allocated.
C5_TotalIsAllocatedSum ==
    \A r \in DOMAIN reservations :
        reservations[r].total_price = SumOver(paidPrice, AttendeesOf(r))

\* what C6 promises about a successful create_pending_reservation step
CreatedAsPlanned(user_id, event_id, boys, girls, names) ==
    LET plan == _allocate_tier_plan(events[event_id], boys, girls)
        id == nextReservationId
        rows == {a \in DOMAIN attendees' : attendees'[a].reservation_id = id}
    IN /\ \A t \in TierKeys :
              events'[event_id].qty[t] = events[event_id].qty[t] - plan.hold_counts[t]
       /\ DOMAIN reservations' = DOMAIN reservations \cup {id}
       /\ id \notin DOMAIN reservations
       /\ reservations'[id].status = STATUS_PENDING
       /\ reservations'[id].hold_applied = 1
       /\ reservations'[id].quantity = boys + girls
       /\ reservations'[id].total_price = plan.total_price
       /\ reservations'[id].ticket_type = plan.attendee_allocations[1].tier_key
       /\ rows = DOMAIN attendees' \ DOMAIN attendees
       /\ Cardinality(rows) = Len(plan.attendee_allocations)
       /\ \A i \in 1..Len(plan.attendee_allocations) :
              LET a == nextAttendeeId + i - 1
              IN /\ a \in rows
                 /\ attendees'[a].ticket_tier = plan.attendee_allocations[i].tier_key
                 /\ attendees'[a].gender = plan.attendee_allocations[i].gender

\* C6: a successful create_pending_reservation with len(names) = boys + girls
\* decrements every tier by the plan's hold count, inserts one pending
\* reservation with hold_applied = 1, quantity = boys + girls, the plan's
\* total and the first allocation's tier, and one attendee row per allocation
\* entry with that entry's tier and gender.
C6_CreateAsPlanned ==
    [][\A u \in UserIds, e \in EventIds, bg \in BookingInputs, names \in NameLists :
          (/\ Len(names) = bg[1] + bg[2]
           /\ create_pending_reservation(u, e, bg[1], bg[2], names)
           /\ ret'.ok)
          => CreatedAsPlanned(u, e, bg[1], bg[2], names)]_vars

\* C7: while a reservation is fresh from its creation the event's total
\* remaining is the pre-creation total minus its quantity, and once it has
\* then been rejected or cancelled every tier is back at its pre-creation value.
C7_HoldReleaseRoundTrip ==
    (snap.by = "booking" /\ ~snap.guests) =>
        /\ snap.stage = "created" =>
               total_remaining(events[snap.event]) =
                   snap.qty["early"] + snap.qty["tier1"] + snap.qty["tier2"]
                       - reservations[snap.res].quantity
        /\ snap.stage = "released" => events[snap.event].qty = snap.qty

ApproveFrame(r) ==
    /\ events' = events
    /\ attendees' = attendees
    /\ DOMAIN reservations' = DOMAIN reservations
    /\ \A x \in DOMAIN reservations \ {r} : reservations'[x] = reservations[x]
    /\ reservations'[r] =
           [reservations[r] EXCEPT !.status = STATUS_APPROVED,
                                   !.reviewed_at = reservations'[r].reviewed_at,
                                   !.reviewed_by_tg_id = reservations'[r].reviewed_by_tg_id]
    /\ reservations'[r].hold_applied = 1

\* C8: approve_reservation on a pending reservation changes only its status
\* (to approved), reviewed_at and reviewed_by_tg_id; tier counters,
\* hold_applied (still 1), quantity, boys, girls, total_price and every
\* attendee row stay as they were.
C8_ApproveFrame ==
    [][\A r \in DOMAIN reservations, admin \in AdminTgIds :
          (reservations[r].status = STATUS_PENDING /\ approve_reservation(r, admin))
          => ApproveFrame(r)]_vars

\* a reservation that a reviewer has just approved
C8_Witness ==
    \E r \in DOMAIN reservations :
        /\ reservations[r].status = STATUS_APPROVED
        /\ reservations[r].admin_note = ""
        /\ reservations[r].reviewed_by_tg_id \in AdminTgIds
        /\ reservations[r].hold_applied = 1
        /\ ret = Returned(TRUE, r)

\* C9: approve_reservation and reject_reservation on a reservation that is not
\* pending_payment_review return failure with the current reservation and
\* change no table.
C9_ReviewOnlyPending ==
    [][\A r \in DOMAIN reservations, admin \in AdminTgIds, note \in NoteInputs :
          (/\ reservations[r].status # STATUS_PENDING
           /\ \/ approve_reservation(r, admin)
              \/ reject_reservation(r, admin, note))
          => (ret' = Returned(FALSE, r) /\ UNCHANGED tables)]_vars

\* an approved reservation on which a second review was refused
C9_Witness ==
    \E r \in DOMAIN reservations :
        /\ reservations[r].status = STATUS_APPROVED
        /\ ret = Returned(FALSE, r)

\* what cancel_reservation_for_user does to reservation r when it succeeds
CancelEffect(r) ==
    LET row == reservations[r] IN
    /\ ret' = Returned(TRUE, r)
    /\ reservations' = [reservations EXCEPT ![r] =
           [row EXCEPT !.status = STATUS_CANCELLED, !.hold_applied = 0]]
    /\ DOMAIN events' = DOMAIN events
    /\ \A e \in DOMAIN events : \A t \in TierKeys :
           events'[e].qty[t] = events[e].qty[t] +
               (IF e = row.event_id /\ row.hold_applied = 1
                THEN Cardinality({a \in AttendeesOf(r) : attendees[a].ticket_tier = t})
                ELSE 0)
    /\ attendees' = attendees

\* C10: cancel_reservation_for_user by the owner succeeds exactly when the
\* status is pending_payment_review or approved, and then credits the held
\* units back, sets status cancelled and hold_applied 0; on a rejected or
\* cancelled reservation it returns failure with the current reservation and
\* changes no reservation field and no tier counter.
C10_CancelByOwner ==
    [][\A r \in DOMAIN reservations :
          cancel_reservation_for_user(reservations[r].user_id, r)
          => IF reservations[r].status \in {STATUS_PENDING, STATUS_APPROVED}
             THEN CancelEffect(r)
             ELSE /\ ret' = Returned(FALSE, r)
                  /\ reservations' = reservations
                  /\ events' = events]_vars

\* a reservation its owner has just cancelled, its guests still on record
C10_Witness ==
    \E r \in released :
        /\ r \in DOMAIN reservations
        /\ reservations[r].status = STATUS_CANCELLED
        /\ reservations[r].hold_applied = 0
        /\ reservations[r].quantity > 0
        /\ ret = Returned(TRUE, r)

\* the status changes the lifecycle allows
StatusChanges ==
    {<<STATUS_PENDING, STATUS_APPROVED>>, <<STATUS_PENDING, STATUS_REJECTED>>,
     <<STATUS_PENDING, STATUS_CANCELLED>>, <<STATUS_APPROVED, STATUS_CANCELLED>>}

\* C11: whatever the operation, a reservation's status either stays as it is
\* or moves pending -> approved, pending -> rejected, pending -> cancelled or
\* approved -> cancelled; so rejected and cancelled are final and approved
\* never turns pending or rejected.
C11_StatusTransitions ==
    [][\A r \in DOMAIN reservations \cap DOMAIN reservations' :
          \/ reservations'[r].status = reservations[r].status
          \/ <<reservations[r].status, reservations'[r].status>> \in StatusChanges]_vars

\* a reservation that was approved by a reviewer and cancelled afterwards
C11_Witness ==
    \E r \in DOMAIN reservations :
        /\ reservations[r].status = STATUS_CANCELLED
        /\ reservations[r].reviewed_at = "now"
        /\ reservations[r].admin_note = ""

\* reject or cancel of reservation r, by its reviewer or by its owner
Releases(r) ==
    \/ \E admin \in AdminTgIds, note \in NoteInputs : reject_reservation(r, admin, note)
    \/ cancel_reservation_for_user(reservations[r].user_id, r)

\* C12: when a reservation that was created and has since seen only guest
\* additions and removals of its own is rejected or cancelled, each tier is
\* credited by the number of the reservation's current attendee rows in that
\* tier, and every tier is back at its quantity from before the creation.
C12_ReleaseByCurrentRows ==
    [][\A r \in DOMAIN reservations :
          (/\ snap.stage = "created"
           /\ snap.res = r
           /\ Releases(r)
           /\ ret'.ok)
          => /\ \A t \in TierKeys :
                    events'[snap.event].qty[t] =
                        events[snap.event].qty[t]
                            + Cardinality({a \in AttendeesOf(r) :
                                              attendees[a].ticket_tier = t})
             /\ events'[snap.event].qty = snap.qty]_vars

TierIndex(tier_key) == CHOOSE i \in 1..3 : TierOrder[i] = tier_key

RECURSIVE SumCounts(_)
SumCounts(breakdown) ==
    IF breakdown = <<>> THEN 0
    ELSE Head(breakdown).count + SumCounts(Tail(breakdown))

\* q is a quote of boys + girls attendees of the event, placed greedily
GreedyQuote(q, event, boys, girls) ==
    LET list == q.attendee_allocations
        used == {list[i].tier_key : i \in DOMAIN list}
    IN /\ q.stage = "quoted"
       /\ q.quantity = boys + girls
       /\ Len(list) = boys + girls
       /\ \A i \in DOMAIN list : \A j \in 1..(TierIndex(list[i].tier_key) - 1) :
              CountTier(SubSeq(list, 1, i - 1), TierOrder[j]) = event.qty[TierOrder[j]]
       /\ \A t \in TierKeys : CountTier(list, t) <= event.qty[t]
       /\ SumCounts(q.breakdown) = boys + girls
       /\ {q.breakdown[i].tier_key : i \in DOMAIN q.breakdown} = used
       /\ \A i \in DOMAIN q.breakdown :
              /\ q.breakdown[i].count = CountTier(list, q.breakdown[i].tier_key)
              /\ \A j \in 1..(i - 1) : TierIndex(q.breakdown[j].tier_key)
                                          < TierIndex(q.breakdown[i].tier_key)

\* C13: a quote of (boys, girls), both non-negative and 0 < boys + girls <=
\* total remaining, allocates exactly boys + girls attendees greedily in the
\* order early, tier1, tier2: an attendee enters a tier only when every earlier
\* tier is exhausted in the planning copy, no tier receives more than it has
\* left, the per-tier counts sum to boys + girls, and the breakdown lists the
\* used tiers in that order.
C13_GreedyAllocation ==
    [][\A e \in DOMAIN events, bg \in QuoteInputs :
          (/\ bg[1] >= 0 /\ bg[2] >= 0
           /\ 0 < bg[1] + bg[2]
           /\ bg[1] + bg[2] <= total_remaining(events[e])
           /\ quote_booking(e, bg[1], bg[2]))
          => GreedyQuote(quote', events[e], bg[1], bg[2])]_vars

\* a quote of boys and girls that spilled from one tier into the next
C13_Witness ==
    /\ quote.stage = "quoted"
    /\ quote.boys > 0
    /\ quote.girls > 0
    /\ Len(quote.breakdown) >= 2
    /\ quote.quantity = total_remaining(events[quote.event_id])

RECURSIVE PriceOfEntries(_, _)
PriceOfEntries(event, list) ==
    IF list = <<>> THEN 0
    ELSE (IF Head(list).gender = "boy"
          THEN event.boy_price[Head(list).tier_key]
          ELSE event.girl_price[Head(list).tier_key])
         + PriceOfEntries(event, Tail(list))

\* C14: in the plan of a quote the tier index never decreases along the
\* attendee list and every boy entry precedes every girl entry, so no girl sits
\* in an earlier tier than a boy of the request, and total_price is the sum
\* over the entries of the tier's boy price (boys) or girl price (girls).
C14_BoysBeforeGirls ==
    quote.stage = "quoted" =>
        LET list == quote.attendee_allocations
            event == events[quote.event_id]
        IN /\ \A i, j \in DOMAIN list :
                  i < j => TierIndex(list[i].tier_key) <= TierIndex(list[j].tier_key)
           /\ \A i, j \in DOMAIN list :
                  (list[i].gender = "boy" /\ list[j].gender = "girl")
                  => (i < j /\ TierIndex(list[i].tier_key) <= TierIndex(list[j].tier_key))
           /\ Cardinality({i \in DOMAIN list : list[i].gender = "boy"}) = quote.boys
           /\ Cardinality({i \in DOMAIN list : list[i].gender = "girl"}) = quote.girls
           /\ quote.total_price = PriceOfEntries(event, list)

\* a quote whose girls were pushed into a later tier by its boys
C14_Witness ==
    /\ quote.stage = "quoted"
    /\ \E i, j \in DOMAIN quote.attendee_allocations :
           /\ quote.attendee_allocations[i].gender = "boy"
           /\ quote.attendee_allocations[j].gender = "girl"
           /\ TierIndex(quote.attendee_allocations[i].tier_key)
                  < TierIndex(quote.attendee_allocations[j].tier_key)
    /\ quote.total_price > 0

\* the call failed and left the tier counters and the rows as they were
RefusedUntouched ==
    /\ ~ret'.ok
    /\ events' = events
    /\ reservations' = reservations
    /\ attendees' = attendees

\* C15: quote_booking and create_pending_reservation fail with the
\* insufficient-inventory error whenever boys + girls exceeds the sum of the
\* three tiers' remaining quantities, and fail when boys + girls <= 0; in both
\* cases no tier counter, reservation or attendee row changes.
C15_OverRequestRefused ==
    [][\A e \in DOMAIN events :
          LET total == total_remaining(events[e]) IN
          /\ \A bg \in QuoteInputs :
                 (quote_booking(e, bg[1], bg[2])
                  /\ (bg[1] + bg[2] > total \/ bg[1] + bg[2] <= 0))
                 => /\ RefusedUntouched
                    /\ quote'.stage = "failed"
                    /\ bg[1] + bg[2] > total =>
                           quote'.error = "Not enough tickets remaining across all tiers"
          /\ \A u \in UserIds, bg \in BookingInputs, names \in NameLists :
                 (create_pending_reservation(u, e, bg[1], bg[2], names)
                  /\ (bg[1] + bg[2] > total \/ bg[1] + bg[2] <= 0))
                 => /\ RefusedUntouched
                    /\ bg[1] + bg[2] > total =>
                           _allocate_tier_plan(events[e], bg[1], bg[2]).error =
                               "Not enough tickets remaining across all tiers"]_vars

\* a quote refused for want of stock while a reservation holds part of it
C15_Witness ==
    /\ quote.stage = "failed"
    /\ quote.error = "Not enough tickets remaining across all tiers"
    /\ quote.boys + quote.girls = total_remaining(events[quote.event_id]) + 1
    /\ total_remaining(events[quote.event_id]) > 0
    /\ \E r \in DOMAIN reservations : reservations[r].hold_applied = 1

\* C16: quote_booking is read-only: whether it succeeds or fails, every tier
\* counter, every reservation and every attendee row stays as it was.
C16_QuoteReadOnly ==
    [][\A e \in EventIds, bg \in QuoteInputs :
          (quote' # NoQuote /\ quote_booking(e, bg[1], bg[2]))
          => /\ events' = events
             /\ reservations' = reservations
             /\ attendees' = attendees]_vars

\* a quote given out of the stock that a held reservation has left
C16_Witness ==
    /\ quote.stage = "quoted"
    /\ quote.breakdown[1].tier_key = "tier1"
    /\ events[quote.event_id].qty["tier1"] = quote.breakdown[1].count
    /\ \E a \in DOMAIN attendees :
           /\ attendees[a].ticket_tier = "early"
           /\ reservations[attendees[a].reservation_id].hold_applied = 1

FirstOpenTier(event) ==
    IF event.qty["early"] > 0 THEN "early"
    ELSE IF event.qty["tier1"] > 0 THEN "tier1"
    ELSE IF event.qty["tier2"] > 0 THEN "tier2"
    ELSE NoTier

\* what a successful admin_add_guest of a guest of that gender does to reservation r
GuestAdded(r, gender) ==
    LET row == reservations[r]
        event == events[row.event_id]
        tier == FirstOpenTier(event)
        price == IF gender = "boy" THEN event.boy_price[tier] ELSE event.girl_price[tier]
        new == DOMAIN attendees' \ DOMAIN attendees
    IN /\ ret'.ok
       /\ Cardinality(new) = 1
       /\ \A a \in new : /\ attendees'[a].reservation_id = r
                         /\ attendees'[a].ticket_tier = tier
                         /\ attendees'[a].gender = gender
       /\ \A a \in DOMAIN attendees : a \in DOMAIN attendees' /\ attendees'[a] = attendees[a]
       /\ reservations' = [reservations EXCEPT ![r] =
              [row EXCEPT !.quantity = @ + 1,
                          !.boys = @ + (IF gender = "boy" THEN 1 ELSE 0),
                          !.girls = @ + (IF gender = "girl" THEN 1 ELSE 0),
                          !.total_price = @ + price]]
       /\ events' = [events EXCEPT ![row.event_id].qty[tier] =
                        @ - (IF row.hold_applied = 1 THEN 1 ELSE 0)]

\* C17: admin_add_guest on a pending or approved reservation takes the first
\* tier in the fixed order with something left, inserts exactly one attendee
\* row with that tier and the gender, raises quantity and the gender's count
\* by 1 and total_price by that tier's price for the gender and, when
\* hold_applied = 1, lowers that tier's remaining by 1 and no other; when no
\* tier has room it fails and changes nothing.
C17_AddGuest ==
    [][\A r \in DOMAIN reservations, n \in GuestNameInputs, g \in GenderInputs :
          (/\ _normalize_gender(g) # NULL
           /\ reservations[r].status \in {STATUS_PENDING, STATUS_APPROVED}
           /\ reservations[r].event_id \in DOMAIN events
           /\ admin_add_guest(r, n, g))
          => IF FirstOpenTier(events[reservations[r].event_id]) = NoTier
             THEN ~ret'.ok /\ UNCHANGED tables
             ELSE GuestAdded(r, _normalize_gender(g))]_vars

\* a guest just added to a holding reservation in another tier than its own
C17_Witness ==
    /\ added.stage = "added"
    /\ ret = Returned(TRUE, added.res)
    /\ added.att \in DOMAIN attendees
    /\ attendees[added.att].ticket_tier = "tier1"
    /\ reservations[added.res].ticket_type = "early"
    /\ reservations[added.res].hold_applied = 1
    /\ reservations[added.res].quantity = added.quantity + 1
    /\ events[reservations[added.res].event_id].qty["tier1"] = added.qty["tier1"] - 1

\* what admin_remove_guest of attendee a does to a holding reservation
GuestRemoved(a) ==
    LET att == attendees[a]
        r == att.reservation_id
        row == reservations[r]
    IN /\ ret'.ok
       /\ att.ticket_tier \in TierKeys
       /\ events' = [events EXCEPT ![row.event_id].qty[att.ticket_tier] = @ + 1]
       /\ DOMAIN attendees' = DOMAIN attendees \ {a}
       /\ \A x \in DOMAIN attendees' : attendees'[x] = attendees[x]
       /\ reservations'[r].quantity = row.quantity - 1
       /\ att.gender = "boy" => /\ reservations'[r].boys = row.boys - 1
                                /\ reservations'[r].girls = row.girls
       /\ att.gender = "girl" => /\ reservations'[r].girls = row.girls - 1
                                 /\ reservations'[r].boys = row.boys
       /\ att.gender \in {"boy", "girl"}
       /\ reservations'[r].quantity > 0 =>
              /\ reservations'[r].status = row.status
              /\ reservations'[r].hold_applied = row.hold_applied

\* C18: admin_remove_guest on a reservation with hold_applied = 1 credits
\* exactly 1 unit to the tier recorded on the attendee row (not to the
\* reservation's ticket_type tier when they differ), deletes exactly that
\* attendee row, lowers quantity and the attendee's gender count by 1 and,
\* when the resulting quantity is > 0, leaves status and hold_applied alone.
C18_RemoveGuest ==
    [][\A a \in DOMAIN attendees :
          (/\ reservations[attendees[a].reservation_id].hold_applied = 1
           /\ reservations[attendees[a].reservation_id].event_id \in DOMAIN events
           /\ admin_remove_guest(a))
          => GuestRemoved(a)]_vars

\* C19: admin_remove_guest of the guest that the latest admin_add_guest put on
\* a reservation, nothing having been written in between, returns the
\* reservation's quantity, boys, girls and total_price to their values before
\* the add and the tier the guest was placed in to its remaining before the add.
C19_AddRemoveRoundTrip ==
    [][(/\ added.stage = "added"
        /\ added.att \in DOMAIN attendees
        /\ admin_remove_guest(added.att))
       => LET row == reservations'[added.res]
              tier == attendees[added.att].ticket_tier
          IN /\ ret'.ok
             /\ row.quantity = added.quantity
             /\ row.boys = added.boys
             /\ row.girls = added.girls
             /\ row.total_price = added.total_price
             /\ events'[reservations[added.res].event_id].qty = added.qty]_vars

\* attendee a is removed by one of the two removal operations
Removes(a) ==
    \/ admin_remove_guest(a)
    \/ /\ a \notin DOMAIN attendees'
       /\ \E n \in RemoveNameInputs :
              admin_remove_guest_by_name(
                  reservations[attendees[a].reservation_id].event_id, n[1], n[2])

\* what the removal of its last attendee a does to a reservation
LastGuestRemoved(a) ==
    LET r == attendees[a].reservation_id
        row == reservations[r]
        tier == attendees[a].ticket_tier
    IN /\ ret'.ok
       /\ reservations' = [reservations EXCEPT ![r] =
              [row EXCEPT !.status = STATUS_CANCELLED, !.quantity = 0, !.boys = 0,
                          !.girls = 0, !.total_price = 0, !.hold_applied = 0]]
       /\ \A t \in TierKeys :
              events'[row.event_id].qty[t] =
                  events[row.event_id].qty[t]
                      + (IF row.hold_applied = 1 /\ t = tier THEN 1 ELSE 0)
       /\ (snap.stage = "created" /\ snap.res = r /\ tier \in TierKeys)
              => events'[row.event_id].qty[tier] = snap.qty[tier]

\* C20: removing the last attendee of a pending or approved reservation, by
\* admin_remove_guest or admin_remove_guest_by_name, sets its status to
\* cancelled, its quantity, boys, girls and total_price to 0 and hold_applied
\* to 0, and returns the unit it held to that attendee's tier, which is then
\* back at its remaining from before the reservation held it.
C20_LastGuestCascade ==
    [][\A a \in DOMAIN attendees :
          (/\ reservations[attendees[a].reservation_id].status
                  \in {STATUS_PENDING, STATUS_APPROVED}
           /\ AttendeesOf(attendees[a].reservation_id) = {a}
           /\ reservations[attendees[a].reservation_id].event_id \in DOMAIN events
           /\ Removes(a))
          => LastGuestRemoved(a)]_vars

\* the statuses that admit guest edits: pending-review, approved and the
\* legacy spellings of pending, whatever their case and padding
MutableStatus(status) ==
    StripLower(status) \in
        {"pending_payment_review", "approved", "pending", "pending_payment",
         "pending_review", "pending_payment_approval"}

RefusedUnchanged == ~ret'.ok /\ UNCHANGED tables

\* C21: admin_add_guest, admin_remove_guest and admin_remove_guest_by_name act
\* only on reservations whose trimmed, lower-cased status is
\* pending_payment_review, approved or a legacy pending alias; on a rejected or
\* cancelled reservation they fail and leave the reservation, its attendees
\* and every tier counter unchanged.
C21_GuestEditsOnlyMutable ==
    [][\A r \in DOMAIN reservations :
          ~MutableStatus(reservations[r].status) =>
              /\ \A n \in GuestNameInputs, g \in GenderInputs :
                     admin_add_guest(r, n, g) => RefusedUnchanged
              /\ \A a \in AttendeesOf(r) : admin_remove_guest(a) => RefusedUnchanged
              /\ \A n \in RemoveNameInputs :
                     admin_remove_guest_by_name(reservations[r].event_id, n[1], n[2])
                     => /\ reservations'[r] = reservations[r]
                        /\ \A a \in AttendeesOf(r) :
                               a \in DOMAIN attendees' /\ attendees'[a] = attendees[a]
                        /\ (\A a \in DOMAIN attendees :
                               LET x == reservations[attendees[a].reservation_id]
                               IN x.event_id = reservations[r].event_id
                                  => ~MutableStatus(x.status))
                           => RefusedUnchanged]_vars

\* a reservation stored under a padded legacy spelling took a guest, while
\* the last call on the rejected reservation beside it was refused
C21_Witness ==
    /\ DOMAIN reservations = {1, 2}
    /\ reservations[1].status = " Pending "
    /\ reservations[1].quantity = 2
    /\ reservations[2].status = STATUS_REJECTED
    /\ reservations[2].quantity = 1
    /\ AttendeesOf(2) = {2}
    /\ ~ret.ok

\* C22: admin_rename_guest requires the attendee's reservation to be in a
\* mutable status: renaming an attendee of a rejected or cancelled reservation
\* fails and leaves the attendee's name fields unchanged.
C22_RenameRequiresMutable ==
    [][\A a \in DOMAIN attendees, n \in RenameInputs :
          (/\ ~MutableStatus(reservations[attendees[a].reservation_id].status)
           /\ admin_rename_guest(a, n))
          => /\ ~ret'.ok
             /\ attendees'[a].full_name = attendees[a].full_name
             /\ attendees'[a].name = attendees[a].name
             /\ attendees'[a].surname = attendees[a].surname]_vars

\* C23: admin_rename_guest changes only the target attendee's full_name, name
\* and surname: that attendee's gender and ticket_tier, every other attendee,
\* every reservation field and every tier counter stay as they were.
C23_RenameFrame ==
    [][\A a \in AttendeeIds, n \in RenameInputs :
          admin_rename_guest(a, n)
          => /\ events' = events
             /\ reservations' = reservations
             /\ DOMAIN attendees' = DOMAIN attendees
             /\ \A b \in DOMAIN attendees :
                    IF b = a
                    THEN attendees'[b] =
                             [attendees[b] EXCEPT !.full_name = attendees'[b].full_name,
                                                  !.name = attendees'[b].name,
                                                  !.surname = attendees'[b].surname]
                    ELSE attendees'[b] = attendees[b]]_vars

\* a rename went through: one attendee now carries the new name beside a
\* guest that kept the old one
C23_Witness ==
    /\ ret.ok
    /\ \E a \in DOMAIN attendees :
           /\ attendees[a].full_name = "Bob Ray"
           /\ attendees[a].name = "Bob"
           /\ attendees[a].surname = "Ray"
           /\ attendees[a].gender = "boy"
    /\ \E b \in DOMAIN attendees : attendees[b].full_name = "Ann Lee"

\* the stored guests a (name, surname) request names, case and padding aside
SameGuest(full_name, n) ==
    \/ full_name = "Ann Lee" /\ n \in {<<"Ann", "Lee">>, <<" ANN", "LEE ">>}
    \/ full_name = "Bob Ray" /\ n = <<"Bob", "Ray">>

\* attendees of mutable reservations of the event that carry the name
Candidates(event_id, n) ==
    {a \in DOMAIN attendees :
        /\ reservations[attendees[a].reservation_id].event_id = event_id
        /\ MutableStatus(reservations[attendees[a].reservation_id].status)
        /\ SameGuest(attendees[a].full_name, n)}

\* C24: admin_remove_guest_by_name(event, name, surname) has the effect of
\* admin_remove_guest on the attendee it resolves: the highest id among the
\* attendees of mutable reservations of that event whose name matches;
\* attendees of other events or of rejected / cancelled reservations are
\* never selected, and with no candidate the call fails without effect.
C24_ByNameIsRemoveOfResolved ==
    [][\A e \in DOMAIN events, n \in RemoveNameInputs :
          admin_remove_guest_by_name(e, n[1], n[2])
          => IF Candidates(e, n) = {}
             THEN RefusedUnchanged
             ELSE LET resolved == CHOOSE a \in Candidates(e, n) :
                                      \A b \in Candidates(e, n) : b <= a
                  IN /\ admin_remove_guest(resolved)
                     /\ DOMAIN attendees \ DOMAIN attendees' = {resolved}]_vars

\* of two guests of one event under the same name the later one was removed
\* and its reservation closed, the earlier one is still on the list
C24_Witness ==
    /\ ret.ok
    /\ reservations[1].event_id = reservations[2].event_id
    /\ 1 \in DOMAIN attendees
    /\ attendees[1].full_name = "Ann Lee"
    /\ MutableStatus(reservations[1].status)
    /\ 2 \notin DOMAIN attendees
    /\ reservations[2].status = STATUS_CANCELLED
    /\ reservations[2].quantity = 0

\* C28: whenever create_pending_reservation, admin_add_guest,
\* admin_add_guest_by_event, admin_remove_guest or admin_remove_guest_by_name
\* fails (a failure flag or an exception), no tier counter, reservation row or
\* attendee row differs from before the call, and the failed call leaves no
\* write behind on the connection for the next commit to persist.
C28_FailuresChangeNothing ==
    [][~ret'.ok => UNCHANGED <<events, reservations, attendees>>]_vars

\* what a successful walk-in of that gender does to the store
WalkInAdded(e, gender) ==
    LET event == events[e]
        tier == FirstOpenTier(event)
        price == IF gender = "boy" THEN event.boy_price[tier] ELSE event.girl_price[tier]
        newRes == DOMAIN reservations' \ DOMAIN reservations
        newAtt == DOMAIN attendees' \ DOMAIN attendees
    IN /\ ret'.ok
       /\ newRes = {ret'.res}
       /\ Cardinality(newAtt) = 1
       /\ \A r \in DOMAIN reservations : reservations'[r] = reservations[r]
       /\ \A a \in DOMAIN attendees : a \in DOMAIN attendees' /\ attendees'[a] = attendees[a]
       /\ LET row == reservations'[ret'.res] IN
              /\ row.status = STATUS_APPROVED
              /\ row.hold_applied = 1
              /\ row.event_id = e
              /\ row.quantity = 1
              /\ row.boys = (IF gender = "boy" THEN 1 ELSE 0)
              /\ row.girls = (IF gender = "girl" THEN 1 ELSE 0)
              /\ row.total_price = price
       /\ \A a \in newAtt :
              /\ attendees'[a].reservation_id = ret'.res
              /\ attendees'[a].gender = gender
              /\ attendees'[a].ticket_tier = tier
       /\ events' = [events EXCEPT ![e].qty[tier] = @ - 1]

\* C29: a successful admin_add_guest_by_event creates a reservation directly
\* in status approved with hold_applied = 1, quantity 1, the gender count 1,
\* total_price the active tier's price for that gender and one attendee row in
\* the active tier, and lowers that tier's remaining by exactly 1; when the
\* event has no tier with remaining > 0 it fails and changes nothing.
C29_WalkIn ==
    [][\A a \in SellerTgIds, e \in DOMAIN events, w \in WalkInInputs, g \in GenderInputs :
          (/\ ret'.ok = (nextReservationId' # nextReservationId)
           /\ admin_add_guest_by_event(a, e, w[1], w[2], g, w[3]))
          => /\ ret'.ok => WalkInAdded(e, _normalize_gender(g))
             /\ FirstOpenTier(events[e]) = NoTier => RefusedUnchanged]_vars

\* a walk-in took the last unit of the early tier for a girl
C29_Witness ==
    /\ snap.stage = "created"
    /\ snap.by = "walkin"
    /\ ret = Returned(TRUE, snap.res)
    /\ snap.qty["early"] = 1
    /\ events[snap.event].qty["early"] = 0
    /\ reservations[snap.res].girls = 1
    /\ reservations[snap.res].total_price = GirlPrices["early"]

\* C30: importing guests through POST /api/admin/guest/import_xlsx adds one
\* guest per valid row and leaves every tier's remaining quantity of the event
\* unchanged: imported guests do not consume inventory.
C30_ImportKeepsInventory ==
    [][\A tg \in SellerTgIds, e \in DOMAIN events, g \in GenderInputs, sheet \in SheetInputs :
          (/\ _normalize_gender(g) # NULL
           /\ admin_guest_import_xlsx(tg, e, g, sheet))
          => /\ events' = events
             /\ Cardinality(DOMAIN attendees' \ DOMAIN attendees)
                    = Cardinality(ParsedRows(sheet))]_vars

BothDone == \A t \in Callers : callers[t].pc = "done"

RaceRemaining == total_remaining(events[1])

\* C25: when two create_pending_reservation calls interleave on the shared
\* connection and each asks for the single remaining unit, exactly one succeeds
\* and returns a reservation, the other fails, and the event's total remaining
\* ends at exactly 0.
C25_OneWinsTheLastUnit ==
    (/\ BothDone
     /\ \A t \in Callers : callers[t].op = "create" /\ callers[t].boys + callers[t].girls = 1
     /\ total_remaining([qty |-> createdQty[1]]) = 2)
    => /\ \E t \in Callers :
              /\ callers[t].result = "returned"
              /\ \A u \in Callers \ {t} : callers[u].result = "raised"
       /\ RaceRemaining = 0

\* a create that got as far as its guarded decrement and found zero rows
Lost(t) == callers[t].op = "create" /\ callers[t].rowcount0

\* a create whose decrements all took effect and that went on to commit
Won(t) == callers[t].op = "create" /\ callers[t].plan.ok /\ ~callers[t].rowcount0

RowsOf(t) == {r \in DOMAIN reservations : reservations[r].user_id = RaceUser[t]}
GuestsOf(t) == {a \in DOMAIN attendees : attendees[a].full_name = RaceName[t]}

RECURSIVE SumWon(_)
SumWon(S) ==
    IF S = {} THEN 0
    ELSE LET t == CHOOSE x \in S : TRUE
         IN (IF Won(t) THEN callers[t].plan.quantity ELSE 0) + SumWon(S \ {t})

\* C26: under any interleaving of two create_pending_reservation calls, the
\* call whose conditional decrement affects zero rows leaves no reservation row
\* and no attendee row behind once both calls have finished, and the winning
\* call's reservation, attendees and decrement are all persisted.
C26_LoserLeavesNothing ==
    (BothDone /\ \A t \in Callers : callers[t].op = "create")
    => /\ ~journal.open
       /\ \A t \in Callers :
              /\ Lost(t) => RowsOf(t) = {} /\ GuestsOf(t) = {}
              /\ Won(t) => /\ Cardinality(RowsOf(t)) = 1
                           /\ Cardinality(GuestsOf(t)) = callers[t].plan.quantity
                           /\ \A a \in GuestsOf(t) : attendees[a].reservation_id \in RowsOf(t)
       /\ RaceRemaining = total_remaining([qty |-> createdQty[1]]) - 1 - SumWon(Callers)

\* C27: when two operations that release the same reservation's hold (cancel,
\* reject, or the removal of its last attendee) interleave, each having read
\* the reservation before the other closed it, the hold is credited back to
\* the tier counters exactly once and the outcome is that of a serial order.
C27_HoldCreditedOnce ==
    (/\ BothDone
     /\ \A t \in Callers : /\ callers[t].op \in {"cancel", "reject", "remove"}
                           /\ callers[t].result = "returned")
    => /\ events[1].qty = createdQty[1]
       /\ reservations[1].hold_applied = 0
       /\ (1 \in DOMAIN attendees) = (reservations[1].quantity = 1)

\* the key of set_event_fields that names a column of the event
ColumnKey(column, tier) ==
    CASE tier = "early" -> "early_" \o column
      [] tier = "tier1" -> "tier1_" \o column
      [] OTHER -> "tier2_" \o column

Names(updates, key) == \E i \in DOMAIN updates : updates[i][1] = key

\* C31: set_event_fields changes only the named columns of the target event:
\* every reservation and every attendee row stays as it was, also when the
\* call overwrites the quantity of a tier in which reservations hold units.
C31_EventFieldsFrame ==
    [][\A e \in EventIds, u \in UpdateInputs :
          ((edits' # edits \/ ~ret'.ok) /\ set_event_fields(e, u))
          => /\ reservations' = reservations
             /\ attendees' = attendees
             /\ DOMAIN events' = DOMAIN events
             /\ \A x \in DOMAIN events :
                    IF x # e THEN events'[x] = events[x]
                    ELSE \A t \in TierKeys :
                        /\ events'[x].qty[t] # events[x].qty[t]
                               => Names(u, ColumnKey("qty", t))
                        /\ events'[x].boy_price[t] # events[x].boy_price[t]
                               => Names(u, ColumnKey("boy", t))
                        /\ events'[x].girl_price[t] # events[x].girl_price[t]
                               => Names(u, ColumnKey("girl", t))]_vars

\* the early quantity was overwritten with 2 while a pending reservation held
\* a unit of that tier
C31_Witness ==
    /\ ret.ok
    /\ edits = 1
    /\ \E e \in DOMAIN events :
           /\ e \in qtyEdited
           /\ events[e].qty["early"] = 2
           /\ \E a \in DOMAIN attendees :
                  /\ attendees[a].ticket_tier = "early"
                  /\ reservations[attendees[a].reservation_id].event_id = e
                  /\ reservations[attendees[a].reservation_id].hold_applied = 1
                  /\ reservations[attendees[a].reservation_id].status = STATUS_PENDING

EventReservations(e) == {r \in DOMAIN reservations : reservations[r].event_id = e}
EventAttendees(e) == {a \in DOMAIN attendees : attendees[a].reservation_id \in EventReservations(e)}

\* C32: delete_event on an existing event removes the event, its reservations
\* and their attendees, returns counts equal to the rows removed and leaves
\* the other events, their reservations and attendees untouched; on a missing
\* event it fails with all counts 0 and changes nothing.
C32_DeleteEvent ==
    [][\A e \in OpenedEventIds :
          ("deleted" \in DOMAIN ret' /\ delete_event(e))
          => IF e \in DOMAIN events
             THEN /\ ret'.ok
                  /\ DOMAIN events' = DOMAIN events \ {e}
                  /\ \A x \in DOMAIN events' : events'[x] = events[x]
                  /\ DOMAIN reservations' = DOMAIN reservations \ EventReservations(e)
                  /\ \A r \in DOMAIN reservations' : reservations'[r] = reservations[r]
                  /\ DOMAIN attendees' = DOMAIN attendees \ EventAttendees(e)
                  /\ \A a \in DOMAIN attendees' : attendees'[a] = attendees[a]
                  /\ ret'.deleted.events = 1
                  /\ ret'.deleted.reservations
                         = Cardinality(DOMAIN reservations \ DOMAIN reservations')
                  /\ ret'.deleted.attendees
                         = Cardinality(DOMAIN attendees \ DOMAIN attendees')
             ELSE /\ ~ret'.ok
                  /\ ret'.deleted = [events |-> 0, reservations |-> 0, attendees |-> 0]
                  /\ UNCHANGED <<events, reservations, attendees>>]_vars

\* an event with one reservation of two guests was deleted and the other
\* event is still there with its reservation and attendee
C32_Witness ==
    /\ "deleted" \in DOMAIN ret
    /\ ret.ok
    /\ ret.deleted = [events |-> 1, reservations |-> 1, attendees |-> 2]
    /\ \E e \in DOMAIN events : EventReservations(e) # {} /\ EventAttendees(e) # {}

\* C33: the migration pass is idempotent: a second _migrate_schema run right
\* after a first one leaves the columns of every table and every row as the
\* first run left them, on a legacy file, a new file and a migrated file.
C33_MigrationIdempotent ==
    [][(migrations = 1 /\ _migrate_schema)
          => UNCHANGED <<columns, events, reservations, attendees>>]_vars

\* a legacy file after two passes: its 'reserved' reservation is approved and
\* holds, its first attendee became a boy with a full name and a tier
C33_Witness ==
    /\ migrations = 2
    /\ "regular_price" \in columns.events
    /\ columns.attendees = LatestColumns.attendees
    /\ reservations[1].status = STATUS_APPROVED
    /\ reservations[1].hold_applied = 1
    /\ events[1].boy_price["tier1"] = BoyPrices["tier1"]
    /\ attendees[1].gender = "boy"
    /\ attendees[2].gender = "unknown"
    /\ attendees[1].full_name = "Ann Lee"
    /\ attendees[2].full_name = "Bob"
    /\ attendees[1].ticket_tier = "early"

\* C34: re-opening a store that is at the latest schema is a no-op: on every
\* store reached through the public operations the startup migration pass
\* changes no reservation status, no attendee gender, ticket_tier or name and
\* no tier counter.
C34_ReopenIsNoOp ==
    [][(migrations' = migrations + 1 /\ _migrate_schema)
          => /\ \A r \in DOMAIN reservations : reservations'[r].status = reservations[r].status
             /\ \A a \in DOMAIN attendees :
                    /\ attendees'[a].gender = attendees[a].gender
                    /\ attendees'[a].ticket_tier = attendees[a].ticket_tier
                    /\ attendees'[a].name = attendees[a].name
                    /\ attendees'[a].surname = attendees[a].surname
                    /\ attendees'[a].full_name = attendees[a].full_name
             /\ \A e \in DOMAIN events : events'[e].qty = events[e].qty]_vars

\* the first tier after tier t, in the fixed order, with something left
NextOpenTier(event, t) ==
    CASE t = "early" -> IF event.qty["tier1"] > 0 THEN "tier1"
                        ELSE IF event.qty["tier2"] > 0 THEN "tier2" ELSE NoTier
      [] t = "tier1" -> IF event.qty["tier2"] > 0 THEN "tier2" ELSE NoTier
      [] OTHER -> NoTier

\* C35: active_tier(event) is the first tier in the order early, tier1, tier2
\* whose remaining quantity is > 0, and it is none exactly when
\* total_remaining(event) = 0; so a hold that exhausts the active tier moves
\* the active tier to the next tier with stock.
C35_ActiveTier ==
    [][\A e \in DOMAIN events' :
          /\ active_tier(events'[e]) = FirstOpenTier(events'[e])
          /\ (active_tier(events'[e]) = NoTier) <=> (total_remaining(events'[e]) = 0)
          /\ (/\ e \in DOMAIN events
              /\ active_tier(events[e]) # NoTier
              /\ \A t \in TierKeys : events'[e].qty[t] <= events[e].qty[t]
              /\ events'[e].qty[active_tier(events[e])] = 0)
             => active_tier(events'[e]) = NextOpenTier(events'[e], active_tier(events[e]))]_vars

\* a pending booking holds the last early unit and tier1 is the active tier
C35_Witness ==
    /\ ret.ok
    /\ snap.stage # "none"
    /\ \E r \in DOMAIN reservations :
           /\ reservations[r].status = STATUS_PENDING
           /\ reservations[r].hold_applied = 1
           /\ reservations[r].ticket_type = "early"
           /\ reservations[r].event_id \in DOMAIN events
           /\ snap.qty["early"] = 1
           /\ events[reservations[r].event_id].qty["early"] = 0
           /\ active_tier(events[reservations[r].event_id]) = "tier1"

\* C36: when two admin_remove_guest calls for the same attendee interleave,
\* both having read the attendee row before either deleted it, the attendee's
\* tier is credited at most 1 unit in total and the reservation's quantity
\* goes down by exactly 1.
C36_RemoveCreditedOnce ==
    (/\ BothDone
     /\ \A t \in Callers : /\ callers[t].op = "remove"
                           /\ callers[t].attendee_id = 1
                           /\ callers[t].result # "refused")
    => /\ events[1].qty["early"] <= createdQty[1]["early"]
       /\ reservations[1].quantity = 0

\* C37: in a single-caller execution, once the pre-check boys + girls <= total
\* remaining of _allocate_tier_plan has passed, the per-attendee scan never
\* raises the sold-out error: every attendee planned finds a tier with stock.
C37_ScanNeverSoldOut ==
    [][\A e \in DOMAIN events, bg \in BookingInputs :
          (/\ bg[1] + bg[2] > 0
           /\ ~OverRequest(events[e], bg[1] + bg[2])
           /\ \E u \in UserIds, names \in NameLists :
                  create_pending_reservation(u, e, bg[1], bg[2], names))
          => ScanGenders(events[e], PlanGenders(bg[1], bg[2]), events[e].qty, <<>>).ok]_vars

\* C38: only the owning user can cancel: cancel_reservation_for_user called
\* by a user who does not own the reservation returns failure with no
\* reservation and changes neither the reservation's status or hold_applied
\* nor any tier counter.
C38_OnlyOwnerCancels ==
    [][\A r \in DOMAIN reservations, u \in AllUserIds :
          (/\ reservations[r].user_id # u
           /\ cancel_reservation_for_user(u, r))
          => /\ ~ret'.ok
             /\ ret'.res = NoRes
             /\ r \in DOMAIN reservations'
             /\ reservations'[r].status = reservations[r].status
             /\ reservations'[r].hold_applied = reservations[r].hold_applied
             /\ \A e \in DOMAIN events : events'[e].qty = events[e].qty]_vars

\* a call was refused with no reservation right after a booking of user 1 that
\* is still pending and holding, with another user known to the store
C38_Witness ==
    /\ ~ret.ok
    /\ ret.res = NoRes
    /\ snap.stage = "created"
    /\ snap.by = "booking"
    /\ snap.res \in DOMAIN reservations
    /\ reservations[snap.res].status = STATUS_PENDING
    /\ reservations[snap.res].hold_applied = 1
    /\ \E u \in AllUserIds : reservations[snap.res].user_id # u

\* C39: in every reachable state a rejected or cancelled reservation has
\* hold_applied = 0, and a reservation created by create_pending_reservation
\* or admin_add_guest_by_event (its ticket_type is a tier; an imported one has
\* none) has hold_applied = 1 as long as it is pending_payment_review or
\* approved.
C39_HoldFollowsStatus ==
    \A r \in DOMAIN reservations :
        /\ reservations[r].status \in {STATUS_REJECTED, STATUS_CANCELLED}
               => reservations[r].hold_applied = 0
        /\ (/\ reservations[r].ticket_type \in TierKeys
            /\ reservations[r].status \in {STATUS_PENDING, STATUS_APPROVED})
               => reservations[r].hold_applied = 1

\* a cancelled booking whose hold was released next to an approved walk-in
\* that holds its unit
C39_Witness ==
    \E r \in DOMAIN reservations, w \in DOMAIN reservations :
        /\ reservations[r].status = STATUS_CANCELLED
        /\ reservations[r].hold_applied = 0
        /\ r \in released
        /\ reservations[w].status = STATUS_APPROVED
        /\ reservations[w].admin_note = "Added by admin dashboard"
        /\ reservations[w].hold_applied = 1

\* C40: for every (boys, girls) that create_pending_reservation accepts, a
\* count below zero with a positive sum included, the committed reservation's
\* total tier decrement equals the number of attendee rows inserted for it and
\* the stored boys and girls are both >= 0.
C40_CountsMatchRows ==
    [][\A e \in DOMAIN events, bg \in BookingInputs :
          (/\ ret'.ok
           /\ nextReservationId' = nextReservationId + 1
           /\ \E u \in UserIds, names \in NameLists :
                  create_pending_reservation(u, e, bg[1], bg[2], names))
          => /\ total_remaining(events[e]) - total_remaining(events'[e])
                    = Cardinality(DOMAIN attendees' \ DOMAIN attendees)
             /\ reservations'[nextReservationId].boys >= 0
             /\ reservations'[nextReservationId].girls >= 0]_vars

====
